---------------------------- MODULE Spec2Model ----------------------------
(***************************************************************************)
(* chatgpt-ui-trimmer: the content script's reconciliation engine          *)
(* (second variant of content.js, src/unnamed/part_001 lines 730-1531),    *)
(* the first variant's trimming (lines 289-689) and the popup's copy of    *)
(* clampKeepLastN.                                                         *)
(*                                                                         *)
(* The page is one JavaScript event loop: every action below is one task   *)
(* (a handler, a timer callback, a storage callback with the promise       *)
(* continuations it releases) run to completion.  MutationObserver         *)
(* callbacks are microtasks: they run before the next task, so the         *)
(* callback is part of the action whose task changed the document.         *)
(***************************************************************************)
EXTENDS Integers, Sequences, FiniteSets, TLC

(***************************************************************************)
(* Bounds of the model.                                                    *)
(***************************************************************************)
MaxTurns == 3       \* turn elements in the document
MaxEvents == 2      \* external events (host mutations, commands, writes) in one run
MaxInFlight == 2    \* reconciliation passes / Apply commands awaiting the store

(***************************************************************************)
(* JavaScript values, as far as the settings need them.                    *)
(* t: the type tag, n: the number (or 0/1 for a boolean), s: the string    *)
(* as a sequence of characters.                                            *)
(***************************************************************************)
Undefined == [t |-> "undefined", n |-> 0, s |-> <<>>]
Null == [t |-> "null", n |-> 0, s |-> <<>>]
NaNValue == [t |-> "nan", n |-> 0, s |-> <<>>]
Num(i) == [t |-> "num", n |-> i, s |-> <<>>]
Str(chars) == [t |-> "str", n |-> 0, s |-> chars]
Bool(b) == [t |-> "bool", n |-> IF b THEN 1 ELSE 0, s |-> <<>>]

DigitChars == <<"0", "1", "2", "3", "4", "5", "6", "7", "8", "9">>
IsDigit(c) == \E i \in 1..10 : DigitChars[i] = c
DigitVal(c) == (CHOOSE i \in 1..10 : DigitChars[i] = c) - 1

RECURSIVE Digits(_)
Digits(n) ==
    IF n < 10 THEN <<DigitChars[n + 1]>>
    ELSE Digits(n \div 10) \o <<DigitChars[(n % 10) + 1]>>

\* String(value)
ToJsString(v) ==
    CASE v.t = "str" -> v.s
      [] v.t = "num" -> IF v.n < 0 THEN <<"-">> \o Digits(-v.n) ELSE Digits(v.n)
      [] v.t = "bool" -> IF v.n = 1 THEN <<"t", "r", "u", "e">>
                         ELSE <<"f", "a", "l", "s", "e">>
      [] v.t = "null" -> <<"n", "u", "l", "l">>
      [] v.t = "nan" -> <<"N", "a", "N">>
      [] OTHER -> <<"u", "n", "d", "e", "f", "i", "n", "e", "d">>

\* Boolean(value)
ToBoolean(v) ==
    CASE v.t = "bool" -> v.n = 1
      [] v.t = "num" -> v.n # 0
      [] v.t = "str" -> Len(v.s) > 0
      [] OTHER -> FALSE

RECURSIVE SkipSpaces(_)
SkipSpaces(chars) ==
    IF Len(chars) > 0 /\ Head(chars) = " " THEN SkipSpaces(Tail(chars)) ELSE chars

RECURSIVE DigitPrefix(_)
DigitPrefix(chars) ==
    IF Len(chars) > 0 /\ IsDigit(Head(chars))
    THEN <<Head(chars)>> \o DigitPrefix(Tail(chars))
    ELSE <<>>

RECURSIVE DigitsValue(_, _)
DigitsValue(chars, acc) ==
    IF Len(chars) = 0 THEN acc
    ELSE DigitsValue(Tail(chars), 10 * acc + DigitVal(Head(chars)))

\* Number.parseInt(string, 10): leading white space, an optional sign, then
\* the longest run of decimal digits; NaN when there is no digit.
ParseInt(chars) ==
    LET trimmed == SkipSpaces(chars)
        signed == Len(trimmed) > 0 /\ Head(trimmed) \in {"-", "+"}
        negative == Len(trimmed) > 0 /\ Head(trimmed) = "-"
        body == IF signed THEN Tail(trimmed) ELSE trimmed
        digits == DigitPrefix(body)
    IN  IF Len(digits) = 0 THEN NaNValue
        ELSE Num(IF negative THEN 0 - DigitsValue(digits, 0) ELSE DigitsValue(digits, 0))

Min(a, b) == IF a < b THEN a ELSE b
Max(a, b) == IF a > b THEN a ELSE b

(***************************************************************************)
(* Settings schema and normalisation.                                      *)
(***************************************************************************)
DefaultKeepLastN == 6
MinKeepLastN == 1
MaxKeepLastN == 500

SettingKeys == {"keepLastN", "minimalUi", "collapseOwnMessages", "collapseCodeBlocks"}

DEFAULT_SETTINGS ==
    [keepLastN |-> Num(DefaultKeepLastN), minimalUi |-> Bool(TRUE),
     collapseOwnMessages |-> Bool(TRUE), collapseCodeBlocks |-> Bool(TRUE)]

\* clampKeepLastN without the lower limit.
clampKeepLastNNoFloor(value) ==
    LET parsed == ParseInt(ToJsString(value))
    IN  IF parsed.t # "num" THEN DefaultKeepLastN ELSE Min(MaxKeepLastN, parsed.n)

\* content.js (second variant), with LIMITS
clampKeepLastN(value) ==
    LET parsed == ParseInt(ToJsString(value))
    IN  IF parsed.t # "num" THEN DefaultKeepLastN
        ELSE Min(MaxKeepLastN, Max(MinKeepLastN, parsed.n))

\* content.js (first variant) and Chromium/popup.js, with the literals 1 and 500
clampKeepLastNLiteral(value) ==
    LET parsed == ParseInt(ToJsString(value))
    IN  IF parsed.t # "num" THEN DefaultKeepLastN
        ELSE Min(500, Max(1, parsed.n))

\* popup.js of the second variant
clampKeepLastNPopup(value) ==
    LET parsed == ParseInt(ToJsString(value))
    IN  IF parsed.t # "num" THEN DefaultKeepLastN
        ELSE Min(MaxKeepLastN, Max(MinKeepLastN, parsed.n))

\* chrome.storage.sync.get(DEFAULT_SETTINGS, cb): the stored value of every
\* requested key, the given default for a key the store does not hold.
\* A store is a function from the keys it holds to values.
StorageGet(stored, defaults) ==
    [k \in DOMAIN defaults |-> IF k \in DOMAIN stored THEN stored[k] ELSE defaults[k]]

\* loadSettings passing a stored number on as it is.
loadSettingsRaw(stored) ==
    LET result == StorageGet(stored, DEFAULT_SETTINGS)
    IN  [keepLastN |-> IF result.keepLastN.t = "num" THEN result.keepLastN.n
                       ELSE DefaultKeepLastN,
         minimalUi |-> ToBoolean(result.minimalUi),
         collapseOwnMessages |-> ToBoolean(result.collapseOwnMessages),
         collapseCodeBlocks |-> ToBoolean(result.collapseCodeBlocks)]

\* The object loadSettings resolves with, given the store's contents.
loadSettings(stored) ==
    LET result == StorageGet(stored, DEFAULT_SETTINGS)
    IN  [keepLastN |-> clampKeepLastN(result.keepLastN),
         minimalUi |-> ToBoolean(result.minimalUi),
         collapseOwnMessages |-> ToBoolean(result.collapseOwnMessages),
         collapseCodeBlocks |-> ToBoolean(result.collapseCodeBlocks)]

(***************************************************************************)
(* The document.                                                           *)
(*                                                                         *)
(* doc is the sequence of <article> elements in document order.  A turn    *)
(* has the host's identity (id: the number in data-testid when it matches  *)
(* the primary selector, the data-turn-id when it matches the fallback     *)
(* selector, 0 for an empty data-turn-id), the data-turn attribute (role), *)
(* the selector it matches (sel), whether it is inside the element with    *)
(* the id `thread` (thread), the hidden marker (the class `hidden` and the *)
(* attribute `attr`), and two parents                                      *)
(* for the nodes inside it: `wrap` holds the children of a wrapper element *)
(* that is the first child of the turn's content element, `body` holds the *)
(* content element's children after the wrapper.  Document order inside a  *)
(* turn is therefore wrap, then body.                                      *)
(*                                                                         *)
(* An item is a user-message node ("msg"), a code block ("pre"), a message *)
(* toggle ("mbtn") or a code toggle ("cbtn"):                              *)
(*   n    the node's identity                                              *)
(*   c    the collapsed marker (nodes)                                     *)
(*   key  the data-cgpt-trimmer-*-key attribute (toggles)                  *)
(*   lab  textContent, exp  aria-expanded (toggles)                        *)
(*   cap  the node captured by the toggle's click listener                 *)
(***************************************************************************)
NoKey == [src |-> "", v |-> 0, part |-> "", ord |-> 0]

Node(type, n) ==
    [t |-> type, n |-> n, c |-> FALSE, key |-> NoKey, lab |-> "", exp |-> "", cap |-> 0]

Button(type, n, key, cap) ==
    [t |-> type, n |-> n, c |-> FALSE, key |-> key, lab |-> "", exp |-> "", cap |-> cap]

\* An <article> of the host as Spec creates them: inside the thread, its
\* data-turn telling whether it holds a user message.
Turn(id, sel, body) ==
    [id |-> id, sel |-> sel, hidden |-> FALSE, attr |-> FALSE, wrap |-> <<>>, body |-> body,
     thread |-> TRUE,
     role |-> IF \E k \in 1..Len(body) : body[k].t = "msg" THEN "user" ELSE "assistant"]

LABELS ==
    [showMyMessage |-> "Show my message", hideMyMessage |-> "Hide my message",
     showCode |-> "Show code", hideCode |-> "Hide code"]

InsertAt(seq, i, x) == SubSeq(seq, 1, i - 1) \o <<x>> \o SubSeq(seq, i, Len(seq))
RemoveAt(seq, i) == SubSeq(seq, 1, i - 1) \o SubSeq(seq, i + 1, Len(seq))

Items(turn, c) == IF c = "wrap" THEN turn.wrap ELSE turn.body
WithItems(turn, c, items) ==
    IF c = "wrap" THEN [turn EXCEPT !.wrap = items] ELSE [turn EXCEPT !.body = items]

\* The turn's descendants in document order.
DocOrder(turn) == turn.wrap \o turn.body

\* A place inside a turn: the parent and the index among its children.
NoLoc == [c |-> "", i |-> 0]
LocOf(turn, k) ==
    IF k <= Len(turn.wrap) THEN [c |-> "wrap", i |-> k]
    ELSE [c |-> "body", i |-> k - Len(turn.wrap)]

\* The descendants of a root in document order.  root "wrap": the wrapper;
\* "body" (the content element) or "turn": everything inside the turn.
\* The wrapper comes first, so a position in Scope is a position in DocOrder.
Scope(turn, root) == IF root = "wrap" THEN turn.wrap ELSE DocOrder(turn)

\* The place of the first of the positions `hits`, NoLoc if there is none.
FirstIn(turn, hits) ==
    IF hits = {} THEN NoLoc ELSE LocOf(turn, CHOOSE k \in hits : \A j \in hits : k <= j)

ItemAt(turn, loc) == Items(turn, loc.c)[loc.i]

LocOfNode(turn, type, n) ==
    FirstIn(turn, {k \in 1..Len(DocOrder(turn)) :
                      DocOrder(turn)[k].t = type /\ DocOrder(turn)[k].n = n})

IsButton(it) == it.t \in {"mbtn", "cbtn"}

\* An identity no toggle of the turn has.
FreshButtonId(turn) ==
    LET used == {DocOrder(turn)[k].n : k \in {j \in 1..Len(DocOrder(turn)) : IsButton(DocOrder(turn)[j])}}
    IN  CHOOSE n \in 1..(Cardinality(used) + 1) : n \notin used

\* An identity no node of the turn has and no click listener of the turn holds.
FreshNodeId(turn) ==
    LET all == DocOrder(turn)
        used == {all[k].n : k \in {j \in 1..Len(all) : ~IsButton(all[j])}}
                \cup {all[k].cap : k \in {j \in 1..Len(all) : IsButton(all[j])}}
    IN  CHOOSE n \in 1..(Cardinality(used) + 1) : n \notin used

(***************************************************************************)
(* Turn Locator.                                                           *)
(***************************************************************************)
RECURSIVE SelectIdx(_, _, _)
SelectIdx(document, sel, k) ==
    IF k > Len(document) THEN <<>>
    ELSE (IF document[k].sel = sel THEN <<k>> ELSE <<>>) \o SelectIdx(document, sel, k + 1)

\* document.querySelector("#thread"): the page has the element when some
\* article is inside it.
HasThreadRoot(document) == \E k \in 1..Len(document) : document[k].thread

\* turns.filter((element) => threadRoot.contains(element))
RECURSIVE InThread(_, _, _)
InThread(document, turns, k) ==
    IF k > Len(turns) THEN <<>>
    ELSE (IF document[turns[k]].thread THEN <<turns[k]>> ELSE <<>>)
         \o InThread(document, turns, k + 1)

\* The matches of the primary selector, those of the fallback selector
\* when there are none, as indices into the document, in document order.
SelectTurns(document, primary) ==
    IF Len(primary) = 0 THEN SelectIdx(document, "fallback", 1) ELSE primary

\* getConversationTurns with the fallback selector tried on what the
\* thread holds: the thread's fallback matches when no primary match is
\* inside the thread.
FallbackInThread(document, primaryInside) ==
    IF Len(primaryInside) = 0
    THEN InThread(document, SelectIdx(document, "fallback", 1), 1)
    ELSE primaryInside

getConversationTurnsPerThread(document) ==
    IF HasThreadRoot(document)
    THEN FallbackInThread(document, InThread(document, SelectIdx(document, "primary", 1), 1))
    ELSE SelectTurns(document, SelectIdx(document, "primary", 1))

\* The located turns, as indices into the document, in document order.
getConversationTurns(document) ==
    IF HasThreadRoot(document)
    THEN InThread(document, SelectTurns(document, SelectIdx(document, "primary", 1)), 1)
    ELSE SelectTurns(document, SelectIdx(document, "primary", 1))

\* getTurnKey: data-testid, else data-turn-id, else data-turn, else the index.
\* The primary selector matches a data-testid that starts with
\* "conversation-turn-", the fallback selector the presence of data-turn-id
\* and data-turn, which may both be empty.
TestId(turn) == IF turn.sel = "primary" THEN turn.id ELSE 0
TurnIdAttr(turn) == IF turn.sel = "fallback" THEN turn.id ELSE 0
RoleNumber(role) == CASE role = "user" -> 1 [] role = "assistant" -> 2 [] OTHER -> 0

getTurnKey(turn, index) ==
    IF TestId(turn) # 0 THEN [src |-> "testid", v |-> TestId(turn)]
    ELSE IF TurnIdAttr(turn) # 0 THEN [src |-> "turn-id", v |-> TurnIdAttr(turn)]
    ELSE IF turn.role # "" THEN [src |-> "turn", v |-> RoleNumber(turn.role)]
    ELSE [src |-> "turn-index", v |-> index]

MessageKey(turnKey) ==
    [src |-> turnKey.src, v |-> turnKey.v, part |-> "user-message", ord |-> 0]
CodeKey(turnKey, codeIndex) ==
    [src |-> turnKey.src, v |-> turnKey.v, part |-> "code-block", ord |-> codeIndex]

(***************************************************************************)
(* Collapse-Toggle Manager.                                                *)
(* COLLAPSE_STATE.messages and .codeBlocks are functions from the keys     *)
(* they hold to booleans.                                                  *)
(***************************************************************************)
MapHas(map, key) == key \in DOMAIN map
MapGet(map, key) == IF key \in DOMAIN map THEN map[key] ELSE FALSE
MapSet(map, key, value) ==
    [k \in DOMAIN map \cup {key} |-> IF k = key THEN value ELSE map[k]]

\* setMessageCollapsed / setCodeCollapsed on the node n and the toggle b of
\* one turn; a node or toggle that is no longer in the turn is detached,
\* and changing it changes nothing in the document.
SetItem(it, nodeType, n, btnType, b, collapsed, showLabel, hideLabel) ==
    IF it.t = nodeType /\ it.n = n THEN [it EXCEPT !.c = collapsed]
    ELSE IF it.t = btnType /\ it.n = b
         THEN [it EXCEPT !.exp = IF collapsed THEN "false" ELSE "true",
                         !.lab = IF collapsed THEN showLabel ELSE hideLabel]
         ELSE it

SetCollapsed(turn, nodeType, n, btnType, b, collapsed, showLabel, hideLabel) ==
    [turn EXCEPT
        !.wrap = [k \in 1..Len(turn.wrap) |->
                     SetItem(turn.wrap[k], nodeType, n, btnType, b, collapsed, showLabel,
                             hideLabel)],
        !.body = [k \in 1..Len(turn.body) |->
                     SetItem(turn.body[k], nodeType, n, btnType, b, collapsed, showLabel,
                             hideLabel)]]

setMessageCollapsed(turn, n, b, collapsed) ==
    SetCollapsed(turn, "msg", n, "mbtn", b, collapsed,
                 LABELS.showMyMessage, LABELS.hideMyMessage)

setCodeCollapsed(turn, n, b, collapsed) ==
    SetCollapsed(turn, "pre", n, "cbtn", b, collapsed, LABELS.showCode, LABELS.hideCode)

\* findChildButtonByKey(root, className, attributeName, key)
findChildButtonByKey(turn, root, btnType, key) ==
    FirstIn(turn, {k \in 1..Len(Scope(turn, root)) :
                      Scope(turn, root)[k].t = btnType /\ Scope(turn, root)[k].key = key})

\* host.insertBefore(button, node): the button leaves its place, if it has
\* one, and becomes the previous sibling of the node.
Detached(turn, from) ==
    IF from = NoLoc THEN turn
    ELSE WithItems(turn, from.c, RemoveAt(Items(turn, from.c), from.i))

InsertedAt(turn, at, button) ==
    WithItems(turn, at.c, InsertAt(Items(turn, at.c), at.i, button))

InsertedBefore(without, button, nodeType, n) ==
    InsertedAt(without, LocOfNode(without, nodeType, n), button)

InsertBefore(turn, button, from, nodeType, n) ==
    InsertedBefore(Detached(turn, from), button, nodeType, n)

\* The part of ensureMessageToggle / ensureCodeToggle that finds or creates
\* the toggle and puts it before the node: the turn and the toggle's identity.
\* root is what findChildButtonByKey searches.
\* at is the node's place, found the place of the toggle that
\* findChildButtonByKey gave (NoLoc if none) and button that toggle or the
\* one created.
PlacedButton(turn, at, found, button, nodeType, n) ==
    [turn |-> IF found # NoLoc /\ found.c = at.c /\ found.i + 1 = at.i THEN turn
              ELSE InsertBefore(turn, button, found, nodeType, n),
     b |-> button.n]

FoundOrCreated(turn, at, found, nodeType, n, btnType, key) ==
    PlacedButton(turn, at, found,
                 IF found = NoLoc THEN Button(btnType, FreshButtonId(turn), key, n)
                 ELSE ItemAt(turn, found),
                 nodeType, n)

PlaceToggle(turn, root, nodeType, n, btnType, key) ==
    FoundOrCreated(turn, LocOfNode(turn, nodeType, n),
                   findChildButtonByKey(turn, root, btnType, key), nodeType, n, btnType, key)

\* COLLAPSE_STATE.x.set(key, true) without the has() test before it.
RememberedAnew(map, key) == MapSet(map, key, TRUE)

\* ensureMessageToggle(turn, messageNode, messageKey); the toggle is searched
\* in the whole turn.  Gives the turn and COLLAPSE_STATE.messages.
\* `if (!COLLAPSE_STATE.x.has(key)) COLLAPSE_STATE.x.set(key, true)`
Remembered(map, key) == IF MapHas(map, key) THEN map ELSE MapSet(map, key, TRUE)

MessageToggled(placed, n, messageKey, map) ==
    [turn |-> setMessageCollapsed(placed.turn, n, placed.b, MapGet(map, messageKey) = TRUE),
     map |-> map]

\* ensureMessageToggle searching the toggle among the descendants of the
\* node's parent only.
ensureMessageToggleInParent(turn, n, messageKey, messages) ==
    MessageToggled(PlaceToggle(turn, LocOfNode(turn, "msg", n).c, "msg", n, "mbtn",
                               messageKey),
                   n, messageKey, Remembered(messages, messageKey))

ensureMessageToggle(turn, n, messageKey, messages) ==
    MessageToggled(PlaceToggle(turn, "turn", "msg", n, "mbtn", messageKey), n, messageKey,
                   Remembered(messages, messageKey))

\* The end of ensureCodeToggle rendering the block collapsed whatever the state.
CodeToggledAsCollapsed(placed, n, codeKey, map) ==
    [turn |-> setCodeCollapsed(placed.turn, n, placed.b, TRUE), map |-> map]

\* ensureCodeToggle(preElement, codeKey); the toggle is searched among the
\* descendants of the block's parent.
CodeToggled(placed, n, codeKey, map) ==
    [turn |-> setCodeCollapsed(placed.turn, n, placed.b, MapGet(map, codeKey) = TRUE),
     map |-> map]

ensureCodeToggle(turn, n, codeKey, codeBlocks) ==
    CodeToggled(PlaceToggle(turn, LocOfNode(turn, "pre", n).c, "pre", n, "cbtn", codeKey),
                n, codeKey, Remembered(codeBlocks, codeKey))

\* cleanupMessageCollapsers / cleanupCodeCollapsers, for one turn: every
\* toggle of the kind removed, every collapsed marker of the kind cleared.
RECURSIVE WithoutType(_, _)
WithoutType(items, btnType) ==
    IF Len(items) = 0 THEN <<>>
    ELSE (IF Head(items).t = btnType THEN <<>> ELSE <<Head(items)>>)
         \o WithoutType(Tail(items), btnType)

RECURSIVE Uncollapsed(_, _)
Uncollapsed(items, nodeType) ==
    IF Len(items) = 0 THEN <<>>
    ELSE <<IF Head(items).t = nodeType THEN [Head(items) EXCEPT !.c = FALSE] ELSE Head(items)>>
         \o Uncollapsed(Tail(items), nodeType)

CleanupTurn(turn, nodeType, btnType) ==
    [turn EXCEPT !.wrap = Uncollapsed(WithoutType(turn.wrap, btnType), nodeType),
                 !.body = Uncollapsed(WithoutType(turn.body, btnType), nodeType)]

cleanupMessageCollapsers(document) ==
    [k \in 1..Len(document) |-> CleanupTurn(document[k], "msg", "mbtn")]

cleanupCodeCollapsers(document) ==
    [k \in 1..Len(document) |-> CleanupTurn(document[k], "pre", "cbtn")]

\* findUserMessageNode(turn): the identity of the first user-message node, 0 if none.
findUserMessageNode(turn) ==
    LET at == FirstIn(turn, {k \in 1..Len(DocOrder(turn)) : DocOrder(turn)[k].t = "msg"})
    IN  IF at = NoLoc THEN 0 ELSE ItemAt(turn, at).n

\* The loop of applyMessageCollapsers from position `index` (0-based) of the
\* located turns.  Gives the document and COLLAPSE_STATE.messages.
RECURSIVE MessageLoop(_, _, _, _), MessageStep(_, _, _, _, _, _), MessageNext(_, _, _, _)
MessageLoop(document, turns, index, messages) ==
    IF index >= Len(turns) THEN [doc |-> document, map |-> messages]
    ELSE MessageStep(document, turns, index, messages, document[turns[index + 1]],
                     findUserMessageNode(document[turns[index + 1]]))

\* One round of the loop: turn is turns[index], n its user message node.
MessageStep(document, turns, index, messages, turn, n) ==
    IF n = 0 THEN MessageLoop(document, turns, index + 1, messages)
    ELSE MessageNext(document, turns, index,
                     ensureMessageToggle(turn, n, MessageKey(getTurnKey(turn, index)), messages))

MessageNext(document, turns, index, done) ==
    MessageLoop([document EXCEPT ![turns[index + 1]] = done.turn], turns, index + 1, done.map)

applyMessageCollapsers(document, turns, enabled, messages) ==
    IF ~enabled THEN [doc |-> cleanupMessageCollapsers(document), map |-> messages]
    ELSE MessageLoop(document, turns, 0, messages)

\* turn.querySelectorAll("pre"): the code blocks of the turn in document order.
RECURSIVE PreBlocks(_)
PreBlocks(items) ==
    IF Len(items) = 0 THEN <<>>
    ELSE (IF Head(items).t = "pre" THEN <<Head(items).n>> ELSE <<>>) \o PreBlocks(Tail(items))

\* The inner loop of applyCodeCollapsers over the blocks of one turn.
RECURSIVE CodeLoop(_, _, _, _, _), CodeNext(_, _, _, _)
CodeLoop(turn, turnKey, preBlocks, codeIndex, codeBlocks) ==
    IF codeIndex >= Len(preBlocks) THEN [turn |-> turn, map |-> codeBlocks]
    ELSE CodeNext(turnKey, preBlocks, codeIndex,
                  ensureCodeToggle(turn, preBlocks[codeIndex + 1],
                                   CodeKey(turnKey, codeIndex), codeBlocks))

CodeNext(turnKey, preBlocks, codeIndex, done) ==
    CodeLoop(done.turn, turnKey, preBlocks, codeIndex + 1, done.map)

\* The outer loop of applyCodeCollapsers over the located turns.
RECURSIVE CodeTurnLoop(_, _, _, _), CodeTurnStep(_, _, _, _, _), CodeTurnNext(_, _, _, _)
CodeTurnLoop(document, turns, turnIndex, codeBlocks) ==
    IF turnIndex >= Len(turns) THEN [doc |-> document, map |-> codeBlocks]
    ELSE CodeTurnStep(document, turns, turnIndex, codeBlocks, document[turns[turnIndex + 1]])

CodeTurnStep(document, turns, turnIndex, codeBlocks, turn) ==
    CodeTurnNext(document, turns, turnIndex,
                 CodeLoop(turn, getTurnKey(turn, turnIndex), PreBlocks(DocOrder(turn)), 0,
                          codeBlocks))

CodeTurnNext(document, turns, turnIndex, done) ==
    CodeTurnLoop([document EXCEPT ![turns[turnIndex + 1]] = done.turn], turns, turnIndex + 1,
                 done.map)

applyCodeCollapsers(document, turns, enabled, codeBlocks) ==
    IF ~enabled THEN [doc |-> cleanupCodeCollapsers(document), map |-> codeBlocks]
    ELSE CodeTurnLoop(document, turns, 0, codeBlocks)

\* applyCollapsibleFeatures(turns, settings); state is COLLAPSE_STATE.
\* m and c are what the two stages gave.
Collapsed(m, c) == [doc |-> c.doc, state |-> [messages |-> m.map, codeBlocks |-> c.map]]

CodeStage(m, turns, settings, state) ==
    Collapsed(m, applyCodeCollapsers(m.doc, turns, settings.collapseCodeBlocks,
                                     state.codeBlocks))

applyCollapsibleFeatures(document, turns, settings, state) ==
    CodeStage(applyMessageCollapsers(document, turns, settings.collapseOwnMessages,
                                     state.messages),
              turns, settings, state)

(***************************************************************************)
(* Click listeners.                                                        *)
(***************************************************************************)
\* `const current = COLLAPSE_STATE.x.get(key) === true; const next = !current;
\*  COLLAPSE_STATE.x.set(key, next)`
Negated(map, key) == MapSet(map, key, ~(MapGet(map, key) = TRUE))

\* The click listener ensureMessageToggle gives the toggle it creates:
\* button.key is the messageKey and button.cap the messageNode of the call
\* that created the toggle.
MessageToggleClicked(turn, button, messages) ==
    [turn |-> setMessageCollapsed(turn, button.cap, button.n,
                                  ~(MapGet(messages, button.key) = TRUE)),
     map |-> Negated(messages, button.key)]

\* The click listener ensureCodeToggle gives the toggle it creates.
CodeToggleClicked(turn, button, codeBlocks) ==
    [turn |-> setCodeCollapsed(turn, button.cap, button.n,
                               ~(MapGet(codeBlocks, button.key) = TRUE)),
     map |-> Negated(codeBlocks, button.key)]

\* turn.querySelector("button.cgpt-trimmer-message-toggle")
FirstMessageToggle(turn) ==
    FirstIn(turn, {k \in 1..Len(DocOrder(turn)) : DocOrder(turn)[k].t = "mbtn"})

\* The end of the capturing listener without the write to COLLAPSE_STATE.
ForceExpandedMarkerOnly(turn, messages, n, button) ==
    [turn |-> setMessageCollapsed(turn, n, button.n, FALSE), map |-> messages]

\* The end of the capturing listener: the state of the toggle's key is set
\* to false and the pair rendered expanded.
ForceExpanded(turn, messages, n, button) ==
    [turn |-> setMessageCollapsed(turn, n, button.n, FALSE),
     map |-> MapSet(messages, button.key, FALSE)]

\* The early returns of the capturing listener: n is the user-message node
\* of the turn (0 if none), at the place of the turn's first message toggle.
HatchOn(turn, messages, n, at) ==
    IF n = 0 THEN [turn |-> turn, map |-> messages]
    ELSE IF ~ItemAt(turn, LocOfNode(turn, "msg", n)).c THEN [turn |-> turn, map |-> messages]
    ELSE IF at = NoLoc THEN [turn |-> turn, map |-> messages]
    ELSE ForceExpanded(turn, messages, n, ItemAt(turn, at))

\* The capturing click listener of attachGlobalListeners, for a click whose
\* target is inside `turn` and inside no message toggle.
onDocumentClick(turn, messages) ==
    HatchOn(turn, messages, findUserMessageNode(turn), FirstMessageToggle(turn))

\* The capturing listener going on for a click inside a message toggle too.
onDocumentClickAnywhere(turn, messages, inMessageToggle) == onDocumentClick(turn, messages)

\* The capturing click listener for a click whose target is inside `turn`:
\* it returns at `target.closest("button.cgpt-trimmer-message-toggle")`
\* when the target is inside a message toggle.
onDocumentClickAt(turn, messages, inMessageToggle) ==
    IF inMessageToggle THEN [turn |-> turn, map |-> messages]
    ELSE onDocumentClick(turn, messages)

(***************************************************************************)
(* Visibility Reconciler.                                                  *)
(* banners is the sequence of elements with the banner id, in document     *)
(* order; pos is the number of turns before the banner and text its        *)
(* textContent.                                                            *)
(***************************************************************************)
setTurnHidden(turn, hidden) == [turn EXCEPT !.hidden = hidden, !.attr = hidden]

\* The loop of applyTrimming from position index (0-based) of the located
\* turns: shouldHide = index < hiddenCount.
RECURSIVE HideLoop(_, _, _, _)
HideLoop(document, turns, index, hiddenCount) ==
    IF index >= Len(turns) THEN document
    ELSE HideLoop([document EXCEPT ![turns[index + 1]] = setTurnHidden(@, index < hiddenCount)],
                  turns, index + 1, hiddenCount)

\* The loop of showAllTurns: setTurnHidden(turn, false) for every located turn.
RECURSIVE ShowLoop(_, _, _)
ShowLoop(document, turns, index) ==
    IF index >= Len(turns) THEN document
    ELSE ShowLoop([document EXCEPT ![turns[index + 1]] = setTurnHidden(@, FALSE)],
                  turns, index + 1)

\* removeBanner: document.getElementById gives the first banner
removeBanner(bans) == IF Len(bans) = 0 THEN bans ELSE Tail(bans)

BannerText(hiddenCount, totalCount, keepLastN) ==
    ToString(hiddenCount) \o " older messages hidden. Showing the last "
        \o ToString(keepLastN) \o " turns (" \o ToString(totalCount) \o " total)."

\* host.insertBefore(banner, turns[0]): the new banner becomes the previous
\* sibling of the turn at document index first.
InsertBanner(bans, first, text) ==
    LET before == {k \in 1..Len(bans) : bans[k].pos < first}
    IN  InsertAt(bans, Cardinality(before) + 1, [pos |-> first - 1, text |-> text])

\* updateBanner creating a banner without looking for the one in place.
updateBannerAlwaysNew(hiddenCount, totalCount, keepLastN, turns, bans) ==
    IF hiddenCount <= 0 THEN removeBanner(bans)
    ELSE InsertBanner(bans, turns[1], BannerText(hiddenCount, totalCount, keepLastN))

\* updateBanner(hiddenCount, totalCount, keepLastN, turns); the turns are
\* in the document, so getBannerHost gives the parent of turns[0].
updateBanner(hiddenCount, totalCount, keepLastN, turns, bans) ==
    IF hiddenCount <= 0 THEN removeBanner(bans)
    ELSE LET text == BannerText(hiddenCount, totalCount, keepLastN)
         IN  IF Len(bans) = 0 THEN InsertBanner(bans, turns[1], text)
             ELSE [bans EXCEPT ![1].text = text]

\* showAllTurns leaving the banner in place.
showAllTurnsKeepBanner(document, bans) ==
    [doc |-> ShowLoop(document, getConversationTurns(document), 0), banners |-> bans]

\* showAllTurns
showAllTurns(document, bans) ==
    [doc |-> ShowLoop(document, getConversationTurns(document), 0),
     banners |-> removeBanner(bans)]

\* What sendResponse is given; fields names the properties the object has.
NoReply ==
    [fields |-> {}, ok |-> FALSE, hiddenCount |-> 0, totalCount |-> 0, keepLastN |-> 0,
     error |-> ""]
ApplyResult(hiddenCount, totalCount, keepLastN) ==
    [fields |-> {"ok", "hiddenCount", "totalCount", "keepLastN"}, ok |-> TRUE,
     hiddenCount |-> hiddenCount, totalCount |-> totalCount, keepLastN |-> keepLastN,
     error |-> ""]
ShowAllReply ==
    [fields |-> {"ok", "hiddenCount"}, ok |-> TRUE, hiddenCount |-> 0, totalCount |-> 0,
     keepLastN |-> 0, error |-> ""]
StatusReply(totalCount, hiddenCount) ==
    [fields |-> {"ok", "totalCount", "hiddenCount"}, ok |-> TRUE,
     hiddenCount |-> hiddenCount, totalCount |-> totalCount, keepLastN |-> 0, error |-> ""]

\* The hidden count off by one.
HiddenCountOffByOne(totalCount, keepLastN) == Max(0, totalCount - keepLastN + 1)

\* The hidden count applyTrimming computes.
HiddenCount(totalCount, keepLastN) == Max(0, totalCount - keepLastN)

\* applyTrimming from the point where loadSettings has resolved with
\* `settings`: the document, the banners, the minimal-UI class of <html>,
\* COLLAPSE_STATE and the value the promise resolves with.
\* The end of applyTrimming: collapsed is what applyCollapsibleFeatures gave.
Reconciled(settings, bans, turns, hiddenCount, collapsed) ==
    [doc |-> collapsed.doc,
     banners |-> updateBanner(hiddenCount, Len(turns), settings.keepLastN, turns, bans),
     minimalUi |-> settings.minimalUi, state |-> collapsed.state,
     result |-> ApplyResult(hiddenCount, Len(turns), settings.keepLastN)]

\* applyTrimming leaving <html> without the minimal-UI class when it locates
\* no turn.
ReconcileUiWithTurns(settings, document, bans, state, turns, hiddenCount) ==
    IF Len(turns) = 0
    THEN [doc |-> document, banners |-> removeBanner(bans), minimalUi |-> FALSE,
          state |-> state, result |-> ApplyResult(0, 0, settings.keepLastN)]
    ELSE Reconciled(settings, bans, turns, hiddenCount,
                    applyCollapsibleFeatures(HideLoop(document, turns, 0, hiddenCount),
                                             turns, settings, state))

\* applyTrimming with the located turns and the hidden count computed.
Reconcile(settings, document, bans, state, turns, hiddenCount) ==
    IF Len(turns) = 0
    THEN [doc |-> document, banners |-> removeBanner(bans),
          minimalUi |-> settings.minimalUi, state |-> state,
          result |-> ApplyResult(0, 0, settings.keepLastN)]
    ELSE Reconciled(settings, bans, turns, hiddenCount,
                    applyCollapsibleFeatures(HideLoop(document, turns, 0, hiddenCount),
                                             turns, settings, state))

LocatedAndCounted(settings, document, bans, state, turns) ==
    Reconcile(settings, document, bans, state, turns,
              HiddenCount(Len(turns), settings.keepLastN))

applyTrimming(settings, document, bans, state) ==
    LocatedAndCounted(settings, document, bans, state, getConversationTurns(document))

(***************************************************************************)
(* Mutation Watcher and Scheduler.                                         *)
(***************************************************************************)
NoTimer == 0 - 1
ApplyDebounceMs == 120
InitialApplyMs == 0
LoadApplyMs == 50
VisibleApplyMs == 80
StorageApplyMs == 50

\* What a childList observer of the whole document can see change: which
\* nodes are children of which, and the text of the toggles and banners
\* (setting textContent replaces the text node; Chromium leaves the node
\* alone when the text is the same).  Classes and attributes are not
\* observed.
ChildView(turn) ==
    [id |-> turn.id,
     wrap |-> [k \in 1..Len(turn.wrap) |-> <<turn.wrap[k].t, turn.wrap[k].n, turn.wrap[k].lab>>],
     body |-> [k \in 1..Len(turn.body) |-> <<turn.body[k].t, turn.body[k].n, turn.body[k].lab>>]]

ChildListView(document, bans) ==
    [turns |-> [k \in 1..Len(document) |-> ChildView(document[k])], banners |-> bans]

\* scheduleApply(delayMs): the pending timer is cleared and a new one armed.
scheduleApply(timer, delayMs) == delayMs

\* The observer's callback runs after the task that changed the document:
\* a batch with a childList record schedules a pass.
observerCallback(timer, before, after) ==
    IF before # after THEN scheduleApply(timer, ApplyDebounceMs) ELSE timer

(***************************************************************************)
(* State.                                                                  *)
(***************************************************************************)
VARIABLES
    doc,            \* the <article> elements, in document order
    banners,        \* the elements with id cgpt-trimmer-banner, in document order
    minimalUi,      \* <html> has the class cgpt-trimmer-minimal-ui
    state,          \* COLLAPSE_STATE
    store,          \* chrome.storage.sync: a function from the stored keys to values
    applyTimer,     \* the delay of the pending timer, NoTimer if none
    timerPasses,    \* passes started by the timer whose loadSettings is pending
    applies,        \* TRIMMER_APPLY commands whose promise chain is pending
    last,           \* what the most recent task did (history)
    events,         \* external events so far (history, bounds the run)
    nextId,         \* the identity the host gives the next turn
    sinceShowAll,   \* "clean" from a TRIMMER_SHOW_ALL until the next external event
    fin,            \* NormSpec: the argument given to the function
    fout,           \* NormSpec: what the function returned
    sched,          \* TimedSpec: the clock and the history of the scheduler
    popup,          \* PopupSpec: the popup's form, status line and pending operation
    order,          \* OrderSpec: the writes, the storage events and the reads of the passes
    first           \* PairSpec: the run of the first content-script variant

vars ==
    <<doc, banners, minimalUi, state, store, applyTimer, timerPasses, applies, last,
      events, nextId, sinceShowAll, fin, fout, sched, popup, order, first>>

domVars == <<doc, banners, minimalUi, state>>
sideVars == <<popup, order, first>>
normVars == <<fin, fout, sched, sideVars>>

\* One entry of `last`.  act names the task; settings is what the pass it
\* completed read and result what applyTrimming resolved with; reply is what
\* the task gave sendResponse and replies how often it called it; msg, wrote
\* and clean describe the TRIMMER_APPLY command the task belongs to; click
\* is the toggle a click hit.
NoMsg ==
    [keepLastN |-> Undefined, minimalUi |-> Undefined, collapseOwnMessages |-> Undefined,
     collapseCodeBlocks |-> Undefined]

\* The toggle a click hit: the turn's index, the toggle's identity and key.
NoClick == [turn |-> 0, b |-> 0, key |-> NoKey]

Did(act) ==
    [act |-> act, settings |-> loadSettings(<<>>), result |-> NoReply,
     reply |-> NoReply, replies |-> 0, msg |-> NoMsg, wrote |-> FALSE, clean |-> FALSE,
     click |-> NoClick]

\* The documents a page can hold when the content script starts: a
\* conversation of alternating user and assistant turns, every assistant
\* turn with one code block, all turns matching one of the two selectors.
UserTurn(id, sel) == Turn(id, sel, <<Node("msg", 1)>>)
CodeTurn(id, sel) == Turn(id, sel, <<Node("pre", 1)>>)

InitialDoc(len, sel) ==
    [k \in 1..len |-> IF k % 2 = 1 THEN UserTurn(k, sel) ELSE CodeTurn(k, sel)]

\* The settings a store can hold from earlier sessions: nothing, or what
\* saveSettings wrote.
StoredSettings(keepLastN, ui, own, code) ==
    [keepLastN |-> Num(keepLastN), minimalUi |-> Bool(ui),
     collapseOwnMessages |-> Bool(own), collapseCodeBlocks |-> Bool(code)]

InitialStores == {<<>>, StoredSettings(1, TRUE, TRUE, TRUE), StoredSettings(2, FALSE, FALSE, FALSE)}

\* NormSpec checks the normalisation functions on their own: fin is the
\* argument (a value for clampKeepLastN, the store's contents for
\* loadSettings), fout what the copies of the function return.
\* For the Turn Locator and getTurnKey the argument is the document (doc);
\* fout holds the located turns and the key getTurnKey gives each of them.
NoInput == [kind |-> "none", value |-> Undefined, stored |-> <<>>]
NoOutput ==
    [done |-> FALSE, content |-> 0, literal |-> 0, popup |-> 0,
     settings |-> loadSettings(<<>>), turns |-> <<>>, keys |-> <<>>]

\* TimedSpec follows the scheduler in time.  now is the time; armedAt is
\* when the pending timer was armed (applyTimer holds its delay); lastBatch
\* is when the last mutation batch of the current burst arrived (negative:
\* no batch yet) and batches how many batches the burst has (counted to 2);
\* starts counts the passes the timer started from the first batch of the
\* burst until applyDebounceMs after its last batch (counted to 2), startAt
\* is when the first of them started; other tells that another caller of
\* scheduleApply (storage change, load, visibilitychange) came in that time.
\* ev is the event of the last step: its kind and, for a storage change,
\* the area and the changed keys, for visibilitychange the visibility
\* state the document has.
Event(kind, areaName, changes, visibilityState) ==
    [kind |-> kind, areaName |-> areaName, changes |-> changes,
     visibilityState |-> visibilityState]
Plain(kind) == Event(kind, "", {}, "")

SchedIdle ==
    [now |-> 0, armedAt |-> 0, lastBatch |-> 0 - 1, batches |-> 0, starts |-> 0,
     startAt |-> 0, other |-> FALSE, loaded |-> FALSE, ev |-> Plain("init")]

\* PopupSpec follows one popup (popup.js of the second variant).  pc is
\* where the click handler stands (closed: no popup; idle; saving: the
\* write of applyNow is pending; query: chrome.tabs.query is pending;
\* sending: chrome.tabs.sendMessage is pending; done; failed), op the button
\* that was clicked, form the four inputs (the text of keepLastN as
\* characters), settings what readForm returned, status what setStatus
\* last set (String(error) is prefix "Error: " and the message; numbers
\* are the counts the text of a success ends with), before the
\* store at the click and sent whether the message reached the content
\* script.
NoStatus == [prefix |-> "", text |-> "", numbers |-> <<>>, isError |-> FALSE]
NoPopup ==
    [pc |-> "closed", op |-> "",
     form |-> [keepLastN |-> <<>>, minimalUi |-> FALSE, collapseOwnMessages |-> FALSE,
               collapseCodeBlocks |-> FALSE],
     settings |-> [keepLastN |-> 0, minimalUi |-> FALSE, collapseOwnMessages |-> FALSE,
                   collapseCodeBlocks |-> FALSE],
     status |-> NoStatus, before |-> <<>>, sent |-> FALSE]

\* OrderSpec follows the writes of the store and the reads of the passes.
\* history is the store after every write so far (version v is
\* history[v + 1]); changed counts the chrome.storage.onChanged events not
\* yet delivered to the content script; armed is the version at the last
\* scheduleApply; passes are the passes in flight, oldest first, each with
\* the version when its timer was armed, the version when it started,
\* whether its chrome.storage.sync.get has been served and with what;
\* done is the pass that completed last.
NoPass ==
    [armed |-> 0, started |-> 0, served |-> FALSE, read |-> 0,
     settings |-> [keepLastN |-> 0, minimalUi |-> FALSE, collapseOwnMessages |-> FALSE,
                   collapseCodeBlocks |-> FALSE],
     command |-> FALSE, msg |-> NoMsg]
NoOrder == [history |-> <<>>, changed |-> 0, armed |-> 0, passes |-> <<>>, done |-> NoPass]

\* PairSpec runs the first content-script variant beside the second on the
\* same page and the same events.  first is the first variant's run: its
\* document, banners and minimal-UI class, its store, its pending timer,
\* the passes and commands in flight and what the last task gave
\* sendResponse.
NoFirst ==
    [doc |-> <<>>, banners |-> <<>>, minimalUi |-> FALSE, store |-> <<>>,
     applyTimer |-> NoTimer, timerPasses |-> 0, applies |-> {}, reply |-> NoReply]

NormIdle ==
    /\ fin = NoInput /\ fout = NoOutput /\ sched = SchedIdle
    /\ popup = NoPopup /\ order = NoOrder /\ first = NoFirst

Init ==
    /\ \E len \in 0..MaxTurns, sel \in {"primary", "fallback"} :
          /\ sel = "fallback" => len = 2
          /\ doc = InitialDoc(len, sel)
          /\ nextId = len + 1
    /\ banners = <<>>
    /\ minimalUi = FALSE
    /\ state = [messages |-> <<>>, codeBlocks |-> <<>>]
    /\ store \in InitialStores
    /\ applyTimer = InitialApplyMs       \* init: scheduleApply(TIMING.initialApplyMs)
    /\ timerPasses = 0
    /\ applies = {}
    /\ last = Did("init")
    /\ events = 0
    /\ sinceShowAll = "none"
    /\ NormIdle

InFlight == timerPasses + Cardinality(applies)

(***************************************************************************)
(* The store.                                                              *)
(***************************************************************************)
\* chrome.storage.sync.set(value): the given keys are written.
StorageSet(stored, value) ==
    [k \in DOMAIN stored \cup DOMAIN value |-> IF k \in DOMAIN value THEN value[k] ELSE stored[k]]

\* The keys chrome.storage.onChanged reports for a write.
ChangedKeys(before, after) ==
    {k \in DOMAIN after : k \notin DOMAIN before \/ before[k] # after[k]}

\* The chrome.storage.onChanged listener of init, for the sync area.
onStorageChanged(timer, changes) ==
    IF changes \cap SettingKeys # {} THEN scheduleApply(timer, StorageApplyMs) ELSE timer

(***************************************************************************)
(* Timer and reconciliation passes.                                        *)
(***************************************************************************)
\* The timer callback of scheduleApply: applyTrimming() starts and waits
\* for loadSettings.
TimerFires ==
    /\ applyTimer # NoTimer
    /\ InFlight < MaxInFlight
    /\ applyTimer' = NoTimer
    /\ timerPasses' = timerPasses + 1
    /\ last' = Did("TimerFires")
    /\ UNCHANGED <<domVars, store, applies, events, nextId, sinceShowAll, normVars>>

\* PassCompletes with an observer that does not see what the pass changed.
PassCompletesUnobserved(pass) ==
    /\ doc' = pass.doc
    /\ banners' = pass.banners
    /\ minimalUi' = pass.minimalUi
    /\ state' = pass.state
    /\ applyTimer' = applyTimer

\* The rest of applyTrimming, run when the storage read calls back with a
\* result, and the observer callback that follows it.
PassCompletes(pass) ==
    /\ doc' = pass.doc
    /\ banners' = pass.banners
    /\ minimalUi' = pass.minimalUi
    /\ state' = pass.state
    /\ applyTimer' = observerCallback(applyTimer, ChildListView(doc, banners),
                                      ChildListView(pass.doc, pass.banners))

TimerPassDone(settings, pass) ==
    /\ PassCompletes(pass)
    /\ last' = [Did("TimerPassDone") EXCEPT !.settings = settings, !.result = pass.result]

TimerPassRuns(settings) ==
    TimerPassDone(settings, applyTrimming(settings, doc, banners, state))

TimerPassLoaded ==
    /\ timerPasses > 0
    /\ TimerPassRuns(loadSettings(store))
    /\ timerPasses' = timerPasses - 1
    /\ UNCHANGED <<store, applies, events, nextId, sinceShowAll, normVars>>

\* The storage read fails: the callback is invoked without a result,
\* `result.keepLastN` throws inside the callback and the promise of
\* loadSettings is never settled.
TimerPassLoadFails ==
    /\ timerPasses > 0
    /\ timerPasses' = timerPasses - 1
    /\ last' = Did("TimerLoadFailed")
    /\ UNCHANGED <<domVars, store, applyTimer, applies, events, nextId, sinceShowAll, normVars>>

(***************************************************************************)
(* Command Surface.                                                        *)
(***************************************************************************)
External ==
    /\ events < MaxEvents
    /\ events' = events + 1

\* The payloads of TRIMMER_APPLY: a full one, the one of the two-field
\* popup (src/Chromium/chatgpt-ui-trimmer/popup.js) and malformed ones:
\* a count that is no number, a missing count, a count out of range, flags
\* that are missing or no booleans.
ApplyMessages ==
    { [keepLastN |-> Num(2), minimalUi |-> Bool(FALSE),
       collapseOwnMessages |-> Bool(FALSE), collapseCodeBlocks |-> Bool(TRUE)],
      [keepLastN |-> Num(1), minimalUi |-> Bool(TRUE),
       collapseOwnMessages |-> Undefined, collapseCodeBlocks |-> Undefined],
      [keepLastN |-> Str(<<"a", "b", "c">>), minimalUi |-> Num(1),
       collapseOwnMessages |-> Str(<<>>), collapseCodeBlocks |-> Null],
      [keepLastN |-> Undefined, minimalUi |-> Undefined,
       collapseOwnMessages |-> Bool(TRUE), collapseCodeBlocks |-> Num(0)],
      [keepLastN |-> Num(0), minimalUi |-> Str(<<"f", "a", "l", "s", "e">>),
       collapseOwnMessages |-> Null, collapseCodeBlocks |-> Undefined] }

\* nextSettings without the turn count.
nextSettingsFlagsOnly(message) ==
    [minimalUi |-> Bool(ToBoolean(message.minimalUi)),
     collapseOwnMessages |-> Bool(ToBoolean(message.collapseOwnMessages)),
     collapseCodeBlocks |-> Bool(ToBoolean(message.collapseCodeBlocks))]

\* nextSettings taking the schema default for a flag the message omits.
FlagOrDefault(value, key) ==
    IF value = Undefined THEN DEFAULT_SETTINGS[key] ELSE Bool(ToBoolean(value))

nextSettingsWithDefaults(message) ==
    [keepLastN |-> Num(clampKeepLastN(message.keepLastN)),
     minimalUi |-> FlagOrDefault(message.minimalUi, "minimalUi"),
     collapseOwnMessages |-> FlagOrDefault(message.collapseOwnMessages, "collapseOwnMessages"),
     collapseCodeBlocks |-> FlagOrDefault(message.collapseCodeBlocks, "collapseCodeBlocks")]

\* nextSettings taking the fields of the message as they come.
nextSettingsAsSent(message) ==
    [keepLastN |-> message.keepLastN,
     minimalUi |-> message.minimalUi,
     collapseOwnMessages |-> message.collapseOwnMessages,
     collapseCodeBlocks |-> message.collapseCodeBlocks]

\* nextSettings of the TRIMMER_APPLY branch
nextSettings(message) ==
    [keepLastN |-> Num(clampKeepLastN(message.keepLastN)),
     minimalUi |-> Bool(ToBoolean(message.minimalUi)),
     collapseOwnMessages |-> Bool(ToBoolean(message.collapseOwnMessages)),
     collapseCodeBlocks |-> Bool(ToBoolean(message.collapseCodeBlocks))]

FreshCid == CHOOSE c \in 1..(Cardinality(applies) + 1) : \A a \in applies : a.cid # c

\* onMessage, TRIMMER_APPLY: saveSettings(nextSettings) is issued and the
\* listener returns true.
ApplyReceived(message) ==
    /\ External
    /\ InFlight < MaxInFlight
    /\ applies' = applies \cup
          {[cid |-> FreshCid, stage |-> "saving", msg |-> message, wrote |-> FALSE,
            clean |-> FALSE]}
    /\ last' = [Did("ApplyReceived") EXCEPT !.msg = message]
    /\ sinceShowAll' = "none"
    /\ UNCHANGED <<domVars, store, applyTimer, timerPasses, nextId, normVars>>

\* Another writer has written the store: the commands that wait for their
\* read no longer read what they wrote.
Disturbed(others) ==
    {IF a.stage = "loading" THEN [a EXCEPT !.clean = FALSE] ELSE a : a \in others}

\* The write of saveSettings succeeds: the store changes, onChanged tells
\* the listener of init, and `.then(() => applyTrimming())` starts the pass.
ApplySaved(a) ==
    /\ a \in applies
    /\ a.stage = "saving"
    /\ store' = StorageSet(store, nextSettings(a.msg))
    /\ applyTimer' = onStorageChanged(applyTimer, ChangedKeys(store, store'))
    /\ applies' = Disturbed(applies \ {a}) \cup
          {[a EXCEPT !.stage = "loading", !.wrote = TRUE, !.clean = TRUE]}
    /\ last' = [Did("ApplySaved") EXCEPT !.msg = a.msg]
    /\ UNCHANGED <<domVars, timerPasses, events, nextId, sinceShowAll, normVars>>

\* The write fails: chrome.runtime.lastError is set, the callback of
\* saveSettings resolves all the same and the pass starts.
ApplySaveFails(a) ==
    /\ a \in applies
    /\ a.stage = "saving"
    /\ applies' = (applies \ {a}) \cup {[a EXCEPT !.stage = "loading", !.clean = TRUE]}
    /\ last' = [Did("ApplySaveFailed") EXCEPT !.msg = a.msg]
    /\ UNCHANGED <<domVars, store, applyTimer, timerPasses, events, nextId, sinceShowAll,
                   normVars>>

\* The pass of a TRIMMER_APPLY completes: `.then((result) => sendResponse(result))`.
ApplyPassDone(a, settings, pass) ==
    /\ PassCompletes(pass)
    /\ last' = [Did("ApplyPassDone") EXCEPT
                   !.settings = settings, !.result = pass.result, !.reply = pass.result,
                   !.replies = 1, !.msg = a.msg, !.wrote = a.wrote, !.clean = a.clean]

ApplyPassRuns(a, settings) ==
    ApplyPassDone(a, settings, applyTrimming(settings, doc, banners, state))

ApplyLoaded(a) ==
    /\ a \in applies
    /\ a.stage = "loading"
    /\ ApplyPassRuns(a, loadSettings(store))
    /\ applies' = applies \ {a}
    /\ UNCHANGED <<store, timerPasses, events, nextId, sinceShowAll, normVars>>

\* The read of a TRIMMER_APPLY pass fails: the promise of loadSettings stays
\* pending, so neither `.then` nor `.catch` of the chain ever runs.
ApplyLoadFails(a) ==
    /\ a \in applies
    /\ a.stage = "loading"
    /\ applies' = applies \ {a}
    /\ last' = [Did("ApplyLoadFailed") EXCEPT !.msg = a.msg, !.wrote = a.wrote,
                                              !.clean = a.clean]
    /\ UNCHANGED <<domVars, store, applyTimer, timerPasses, events, nextId, sinceShowAll,
                   normVars>>

\* The system is at rest: no timer pending, no pass or command in flight.
AtRest == applyTimer = NoTimer /\ InFlight = 0

HiddenLocated(document) ==
    {k \in 1..Len(getConversationTurns(document)) :
        document[getConversationTurns(document)[k]].hidden}

\* onMessage, TRIMMER_SHOW_ALL
ShownAll(shown) ==
    /\ doc' = shown.doc
    /\ banners' = shown.banners
    /\ applyTimer' = observerCallback(applyTimer, ChildListView(doc, banners),
                                      ChildListView(shown.doc, shown.banners))

ShowAll ==
    /\ External
    /\ ShownAll(showAllTurns(doc, banners))
    /\ last' = [Did("ShowAll") EXCEPT !.reply = ShowAllReply, !.replies = 1]
    /\ sinceShowAll' = IF AtRest /\ HiddenLocated(doc) # {} THEN "clean" ELSE "none"
    /\ UNCHANGED <<minimalUi, state, store, timerPasses, applies, nextId, normVars>>

\* The counts taken over every turn element, located or not.
StatusCountsAnyHidden(document) ==
    [totalCount |-> Len(getConversationTurns(document)),
     hiddenCount |-> Cardinality({k \in 1..Len(document) : document[k].hidden})]

\* The counts of the TRIMMER_STATUS branch.
StatusCounts(document) ==
    [totalCount |-> Len(getConversationTurns(document)),
     hiddenCount |-> Cardinality(HiddenLocated(document))]

\* onMessage, TRIMMER_STATUS
StatusAnswered(counts) ==
    last' = [Did("Status") EXCEPT
                !.reply = StatusReply(counts.totalCount, counts.hiddenCount), !.replies = 1]

Status ==
    /\ External
    /\ StatusAnswered(StatusCounts(doc))
    /\ sinceShowAll' = "none"
    /\ UNCHANGED <<domVars, store, applyTimer, timerPasses, applies, nextId, normVars>>

(***************************************************************************)
(* The environment: the host page and other writers of the store.          *)
(***************************************************************************)
HostChanged ==
    /\ applyTimer' = observerCallback(applyTimer, ChildListView(doc, banners),
                                      ChildListView(doc', banners'))
    /\ last' = Did("Host")
    /\ sinceShowAll' = "none"

\* The host appends a turn (a new message), in the markup the primary
\* selector matches.
HostAppendTurn(kind) ==
    /\ External
    /\ Len(doc) < MaxTurns
    /\ doc' = Append(doc, IF kind = "user" THEN UserTurn(nextId, "primary")
                          ELSE CodeTurn(nextId, "primary"))
    /\ nextId' = nextId + 1
    /\ UNCHANGED <<banners, minimalUi, state, store, timerPasses, applies, normVars>>
    /\ HostChanged

\* The host removes the first or the last turn, with everything inside it.
HostRemoveTurn(i) ==
    /\ External
    /\ i \in {1, Len(doc)} \ {0}
    /\ doc' = RemoveAt(doc, i)
    /\ banners' = [k \in 1..Len(banners) |->
                      IF banners[k].pos >= i THEN [banners[k] EXCEPT !.pos = @ - 1]
                      ELSE banners[k]]
    /\ UNCHANGED <<minimalUi, state, store, timerPasses, applies, nextId, normVars>>
    /\ HostChanged

OtherParent(c) == IF c = "wrap" THEN "body" ELSE "wrap"

\* The host moves a message node or code block of turn i to the end of the
\* turn's other parent; the toggles stay where they are.
HostMoveNode(i, k) ==
    /\ External
    /\ i \in 1..Len(doc)
    /\ k \in 1..Len(DocOrder(doc[i]))
    /\ ~IsButton(DocOrder(doc[i])[k])
    /\ LET at == LocOf(doc[i], k)
           node == ItemAt(doc[i], at)
           without == WithItems(doc[i], at.c, RemoveAt(Items(doc[i], at.c), at.i))
           to == OtherParent(at.c)
       IN  doc' = [doc EXCEPT ![i] = WithItems(without, to, Append(Items(without, to), node))]
    /\ UNCHANGED <<banners, minimalUi, state, store, timerPasses, applies, nextId, normVars>>
    /\ HostChanged

\* The host replaces a message node or code block of turn i by a new node
\* in the same place (a re-render).
HostReplaceNode(i, k) ==
    /\ External
    /\ i \in 1..Len(doc)
    /\ k \in 1..Len(DocOrder(doc[i]))
    /\ ~IsButton(DocOrder(doc[i])[k])
    /\ LET at == LocOf(doc[i], k)
           node == Node(ItemAt(doc[i], at).t, FreshNodeId(doc[i]))
       IN  doc' = [doc EXCEPT ![i] =
                      WithItems(@, at.c, [Items(@, at.c) EXCEPT ![at.i] = node])]
    /\ UNCHANGED <<banners, minimalUi, state, store, timerPasses, applies, nextId, normVars>>
    /\ HostChanged

\* The host re-renders turn i without the attributes the two selectors look
\* for; attributes are not observed.
HostRetagTurn(i) ==
    /\ External
    /\ i \in 1..Len(doc)
    /\ doc[i].sel # "none"
    /\ doc' = [doc EXCEPT ![i].sel = "none"]
    /\ UNCHANGED <<banners, minimalUi, state, store, timerPasses, applies, nextId, normVars>>
    /\ HostChanged

(***************************************************************************)
(* The user: clicks on rendered elements (nothing inside a turn with the   *)
(* hidden class is rendered).                                              *)
(***************************************************************************)
\* What a click's listeners leave: the turn, the two maps, and the observer
\* callback that follows.
Clicked(i, turn, messages, codeBlocks) ==
    /\ External
    /\ doc' = [doc EXCEPT ![i] = turn]
    /\ state' = [messages |-> messages, codeBlocks |-> codeBlocks]
    /\ applyTimer' = observerCallback(applyTimer, ChildListView(doc, banners),
                                      ChildListView(doc', banners))
    /\ sinceShowAll' = "none"
    /\ UNCHANGED <<banners, minimalUi, store, timerPasses, applies, nextId, normVars>>

ClickOn(act, i, button) ==
    [Did(act) EXCEPT !.click = [turn |-> i, b |-> button.n, key |-> button.key]]

\* A click on the message toggle at position k of turn i: the capturing
\* listener returns at `target.closest(button.messageToggle)`, then the
\* toggle's listener runs.
MessageClickDone(i, hit) == Clicked(i, hit.turn, hit.map, state.codeBlocks)

MessageClickAfterCapture(i, button, hatch) ==
    MessageClickDone(i, MessageToggleClicked(hatch.turn, button, hatch.map))

ClickMessageToggle(i, k) ==
    /\ ~doc[i].hidden
    /\ DocOrder(doc[i])[k].t = "mbtn"
    /\ MessageClickAfterCapture(i, DocOrder(doc[i])[k],
                                onDocumentClickAt(doc[i], state.messages, TRUE))
    /\ last' = ClickOn("ClickMessageToggle", i, DocOrder(doc[i])[k])

\* A click on the code toggle at position k of turn i: the capturing
\* listener runs first (hatch is what it left), then the toggle's listener.
CodeClickDone(i, hatch, hit) == Clicked(i, hit.turn, hatch.map, hit.map)

CodeClickAfterHatch(i, button, hatch) ==
    CodeClickDone(i, hatch, CodeToggleClicked(hatch.turn, button, state.codeBlocks))

ClickCodeToggle(i, k) ==
    /\ ~doc[i].hidden
    /\ DocOrder(doc[i])[k].t = "cbtn"
    /\ CodeClickAfterHatch(i, DocOrder(doc[i])[k],
                           onDocumentClickAt(doc[i], state.messages, FALSE))
    /\ last' = ClickOn("ClickCodeToggle", i, DocOrder(doc[i])[k])

\* A click on another rendered element inside turn i (the article, a host
\* control): the capturing listener runs; the handlers of the target are
\* the host's.
InsideClickDone(i, hatch) == Clicked(i, hatch.turn, hatch.map, state.codeBlocks)

ClickInside(i) ==
    /\ ~doc[i].hidden
    /\ InsideClickDone(i, onDocumentClickAt(doc[i], state.messages, FALSE))
    /\ last' = [Did("ClickInside") EXCEPT !.click = [NoClick EXCEPT !.turn = i]]

\* What the popup's saveSettings writes.
PopupWrites == {StoredSettings(1, TRUE, TRUE, TRUE), StoredSettings(2, FALSE, FALSE, FALSE)}

\* Another writer (the popup, another device) writes the store.
ExternalWrite(value) ==
    /\ External
    /\ store' = StorageSet(store, value)
    /\ applyTimer' = onStorageChanged(applyTimer, ChangedKeys(store, store'))
    /\ applies' = Disturbed(applies)
    /\ last' = Did("ExternalWrite")
    /\ sinceShowAll' = "none"
    /\ UNCHANGED <<domVars, timerPasses, nextId, normVars>>

Next ==
    \/ TimerFires
    \/ TimerPassLoaded
    \/ TimerPassLoadFails
    \/ \E message \in ApplyMessages : ApplyReceived(message)
    \/ \E a \in applies : ApplySaved(a)
    \/ \E a \in applies : ApplySaveFails(a)
    \/ \E a \in applies : ApplyLoaded(a)
    \/ \E a \in applies : ApplyLoadFails(a)
    \/ ShowAll
    \/ Status
    \/ \E kind \in {"user", "code"} : HostAppendTurn(kind)
    \/ \E i \in 1..Len(doc) : HostRemoveTurn(i)
    \/ \E i \in 1..Len(doc) : \E k \in 1..Len(DocOrder(doc[i])) : HostMoveNode(i, k)
    \/ \E i \in 1..Len(doc) : \E k \in 1..Len(DocOrder(doc[i])) : HostReplaceNode(i, k)
    \/ \E value \in PopupWrites : ExternalWrite(value)
    \/ \E i \in 1..Len(doc) : HostRetagTurn(i)
    \/ \E i \in 1..Len(doc) : \E k \in 1..Len(DocOrder(doc[i])) : ClickMessageToggle(i, k)
    \/ \E i \in 1..Len(doc) : \E k \in 1..Len(DocOrder(doc[i])) : ClickCodeToggle(i, k)
    \/ \E i \in 1..Len(doc) : ClickInside(i)

Spec == Init /\ [][Next]_vars

\* FairSpec: the event loop runs what is due.  An armed timer's callback
\* runs, and the callbacks of chrome.storage.sync.get and set are called
\* with a result; the host, the user and the popup are under no obligation.
\* TimerDue is TimerFires as far as the timer and the count of passes go
\* (no other step disarms the timer and starts a pass).  Weak fairness of a
\* callback of the store is written out, WF_vars(A) being
\* []<>~ENABLED <<A>>_vars \/ []<><<A>>_vars: the read of a timer pass can
\* call back iff timerPasses > 0, the write or read of a command iff the
\* command is at that stage, and the step A is the one that leaves its
\* name in last.act.
TimerDue ==
    /\ applyTimer # NoTimer
    /\ InFlight < MaxInFlight
    /\ applyTimer' = NoTimer
    /\ timerPasses' = timerPasses + 1

Saving == {a \in applies : a.stage = "saving"}
Loading == {a \in applies : a.stage = "loading"}

Fairness ==
    /\ WF_<<applyTimer, timerPasses>>(TimerDue)
    /\ []<>(timerPasses = 0) \/ []<><<last'.act = "TimerPassDone">>_vars
    /\ []<>(Saving = {}) \/ []<><<last'.act = "ApplySaved">>_vars
    /\ []<>(Loading = {}) \/ []<><<last'.act = "ApplyPassDone">>_vars

FairSpec == Init /\ [][Next]_vars /\ Fairness

(***************************************************************************)
(* NormSpec: clampKeepLastN and loadSettings on bounded sets of inputs.    *)
(***************************************************************************)
MaxProbe == 5       \* how far outside [1,500] the numbers given to clampKeepLastN go

StringInputs ==
    { <<"a", "b", "c">>, <<>>, <<" ", "7">>, <<"1", "2", "p", "x">>, <<"-", "5">>,
      <<"+", "4">>, <<"3", ".", "7">>, <<"5", "0", "1">>, <<"0", "x", "1", "0">>,
      <<"0", "0", "7">>, <<"-">>, <<"9", "9", "9", "9">> }

ClampInputs ==
    {Num(i) : i \in (0 - MaxProbe)..(MaxKeepLastN + MaxProbe)}
        \cup {Str(chars) : chars \in StringInputs}
        \cup {Undefined, Null, NaNValue, Bool(TRUE), Bool(FALSE)}

\* What a store can hold under keepLastN and under a flag; Undefined stands
\* for a key the store does not hold.
StoredCounts ==
    {Undefined, Null, Num(0 - MaxProbe), Num(0), Num(1), Num(6), Num(MaxKeepLastN),
     Num(MaxKeepLastN + 1), Str(<<"a", "b", "c">>), Str(<<"1", "2">>), Bool(TRUE)}
StoredFlags ==
    {Undefined, Null, Bool(TRUE), Bool(FALSE), Num(0), Num(1), Str(<<>>),
     Str(<<"f", "a", "l", "s", "e">>)}

StoreOf(count, ui, own, code) ==
    LET all == [keepLastN |-> count, minimalUi |-> ui, collapseOwnMessages |-> own,
                collapseCodeBlocks |-> code]
    IN  [k \in {key \in SettingKeys : all[key] # Undefined} |-> all[k]]

MaxArticles == 3    \* the longest document given to the Turn Locator

\* An <article> of a host page: a user message and a code block inside.
HostArticle(id, role, sel, thread) ==
    [Turn(id, sel, <<Node("msg", 1), Node("pre", 2)>>) EXCEPT !.thread = thread,
                                                             !.role = role]

\* Articles the primary selector matches, articles the fallback selector
\* matches (data-turn-id and data-turn present, each empty or not) and
\* articles neither matches, inside the thread or outside.
ArticleInputs ==
    {HostArticle(id, "user", "primary", thread) : id \in 1..2, thread \in BOOLEAN}
        \cup {HostArticle(it[1], it[2], "fallback", it[3]) :
                 it \in (0..2) \X {"user", ""} \X BOOLEAN}
        \cup {HostArticle(0, "", "none", thread) : thread \in BOOLEAN}

\* The host gives no two articles the same non-empty identity attribute.
DistinctIds(document) ==
    \A i \in 1..Len(document), j \in 1..Len(document) :
        (i # j /\ document[i].id # 0 /\ document[i].sel = document[j].sel)
            => document[i].id # document[j].id

DocInputs ==
    {document \in UNION {[1..len -> ArticleInputs] : len \in 0..MaxArticles} :
        DistinctIds(document)}

NormInit ==
    /\ \/ /\ \E value \in ClampInputs :
                fin = [NoInput EXCEPT !.kind = "value", !.value = value]
          /\ doc = <<>>
       \/ /\ \E count \in StoredCounts, ui \in StoredFlags, own \in StoredFlags,
                code \in StoredFlags :
                fin = [NoInput EXCEPT !.kind = "store",
                                      !.stored = StoreOf(count, ui, own, code)]
          /\ doc = <<>>
       \/ /\ fin = [NoInput EXCEPT !.kind = "doc"]
          /\ doc \in DocInputs
    /\ fout = NoOutput
    /\ sched = SchedIdle
    /\ popup = NoPopup
    /\ order = NoOrder
    /\ first = NoFirst
    /\ nextId = 1
    /\ banners = <<>>
    /\ minimalUi = FALSE
    /\ state = [messages |-> <<>>, codeBlocks |-> <<>>]
    /\ store = <<>>
    /\ applyTimer = NoTimer
    /\ timerPasses = 0
    /\ applies = {}
    /\ last = Did("init")
    /\ events = 0
    /\ sinceShowAll = "none"

mainVars ==
    <<doc, banners, minimalUi, state, store, applyTimer, timerPasses, applies, last,
      events, nextId, sinceShowAll>>

\* The copies of clampKeepLastN are called with the value.
NormClamp ==
    /\ fin.kind = "value"
    /\ ~fout.done
    /\ fout' = [NoOutput EXCEPT !.done = TRUE,
                                !.content = clampKeepLastN(fin.value),
                                !.literal = clampKeepLastNLiteral(fin.value),
                                !.popup = clampKeepLastNPopup(fin.value)]
    /\ UNCHANGED <<fin, sched, mainVars, sideVars>>

\* loadSettings reads the store.
NormLoad ==
    /\ fin.kind = "store"
    /\ ~fout.done
    /\ fout' = [NoOutput EXCEPT !.done = TRUE, !.settings = loadSettings(fin.stored)]
    /\ UNCHANGED <<fin, sched, mainVars, sideVars>>

\* getTurnKey(turn, index) for every located turn, as the loops of
\* applyMessageCollapsers and applyCodeCollapsers call it.
TurnKeys(document, turns) ==
    [i \in 1..Len(turns) |-> getTurnKey(document[turns[i]], i - 1)]

\* getConversationTurns scans the document and the keys are derived.
NormLocate ==
    /\ fin.kind = "doc"
    /\ ~fout.done
    /\ fout' = [NoOutput EXCEPT !.done = TRUE,
                                !.turns = getConversationTurns(doc),
                                !.keys = TurnKeys(doc, getConversationTurns(doc))]
    /\ UNCHANGED <<fin, sched, mainVars, sideVars>>

NormNext == NormClamp \/ NormLoad \/ NormLocate

NormSpec == NormInit /\ [][NormNext]_vars

(***************************************************************************)
(* TimedSpec: the scheduler in time.  The callers of scheduleApply are the *)
(* observer callback, the storage listener, the load listener and the      *)
(* visibilitychange listener; a timer callback runs when its delay has     *)
(* passed.  What the passes do to the document is left out: the batches    *)
(* they cause arrive like the host's.                                      *)
(***************************************************************************)
MaxTime == 260      \* the time up to which the clock runs
TimeStep == 10      \* how far the clock advances in one step

\* The time the pending timer is due.
Due == sched.armedAt + applyTimer

\* window.clearTimeout(applyTimer) leaving a pending timer in place.
RearmedUnlessPending(timer, armedAt, now, delayMs) ==
    IF timer # NoTimer THEN [delay |-> timer, armedAt |-> armedAt]
    ELSE [delay |-> delayMs, armedAt |-> now]

\* scheduleApply(delayMs) at the time now: the timer that is pending
\* afterwards.
Rearmed(timer, armedAt, now, delayMs) ==
    [delay |-> scheduleApply(timer, delayMs), armedAt |-> now]

TimedInit ==
    /\ sched = SchedIdle
    /\ applyTimer = InitialApplyMs       \* init: scheduleApply(TIMING.initialApplyMs)
    /\ last = Did("init")
    /\ fin = NoInput
    /\ fout = NoOutput
    /\ popup = NoPopup
    /\ order = NoOrder
    /\ first = NoFirst
    /\ doc = <<>>
    /\ nextId = 1
    /\ banners = <<>>
    /\ minimalUi = FALSE
    /\ state = [messages |-> <<>>, codeBlocks |-> <<>>]
    /\ store = <<>>
    /\ timerPasses = 0
    /\ applies = {}
    /\ events = 0
    /\ sinceShowAll = "none"

timedRest ==
    <<doc, banners, minimalUi, state, store, timerPasses, applies, events, nextId,
      sinceShowAll, fin, fout, sideVars>>

\* Time passes, up to the time the pending timer is due; the clock runs up
\* to limit.
TimedTickTo(limit) ==
    /\ sched.now < limit
    /\ applyTimer # NoTimer => sched.now < Due
    /\ sched' = [sched EXCEPT !.now = IF applyTimer # NoTimer /\ Due < sched.now + TimeStep
                                      THEN Due ELSE sched.now + TimeStep,
                               !.ev = Plain("tick")]
    /\ last' = Did("TimedTick")
    /\ UNCHANGED <<applyTimer, timedRest>>

TimedTick == TimedTickTo(MaxTime)

\* The burst is the current one until applyDebounceMs after its last batch.
InBurst == sched.lastBatch >= 0 /\ sched.now <= sched.lastBatch + ApplyDebounceMs

\* The timer callback of scheduleApply runs: a pass starts.
TimedTimerFires ==
    /\ applyTimer # NoTimer
    /\ sched.now >= Due
    /\ applyTimer' = NoTimer
    /\ sched' = IF InBurst
                THEN [sched EXCEPT !.starts = Min(2, @ + 1),
                                   !.startAt = IF sched.starts = 0 THEN sched.now ELSE @,
                                   !.ev = Plain("timer")]
                ELSE [sched EXCEPT !.ev = Plain("timer")]
    /\ last' = Did("TimedTimerFires")
    /\ UNCHANGED timedRest

\* A call of scheduleApply(delayMs) at the time sched.now; armed is the
\* timer it leaves.
TimedCall(armed, history) ==
    /\ applyTimer' = armed.delay
    /\ sched' = [history EXCEPT !.armedAt = armed.armedAt]
    /\ UNCHANGED timedRest

\* The observer callback with a batch of childList records: the batch
\* belongs to the burst if it arrives less than applyDebounceMs after the
\* last batch, and begins a burst otherwise.
TimedMutationBatch ==
    /\ TimedCall(Rearmed(applyTimer, sched.armedAt, sched.now, ApplyDebounceMs),
                 IF sched.lastBatch >= 0 /\ sched.now < sched.lastBatch + ApplyDebounceMs
                 THEN [sched EXCEPT !.lastBatch = sched.now, !.batches = 2,
                                    !.ev = Plain("mutations")]
                 ELSE [sched EXCEPT !.lastBatch = sched.now, !.batches = 1, !.starts = 0,
                                    !.startAt = 0, !.other = FALSE,
                                    !.ev = Plain("mutations")])
    /\ last' = Did("TimedMutationBatch")

\* The history after another caller of scheduleApply.
OtherCaller == IF InBurst THEN [sched EXCEPT !.other = TRUE] ELSE sched

\* A listener of init has run on the event ev: it called
\* scheduleApply(delayMs), or nothing (NoCall).
NoCall == 0 - 2

TimedListener(act, delayMs, ev) ==
    IF delayMs = NoCall
    THEN /\ sched' = [sched EXCEPT !.ev = ev]
         /\ last' = Did("TimedIgnored")
         /\ UNCHANGED <<applyTimer, timedRest>>
    ELSE /\ TimedCall(Rearmed(applyTimer, sched.armedAt, sched.now, delayMs),
                      [OtherCaller EXCEPT !.ev = ev])
         /\ last' = Did(act)

\* The store changes: the area and the changed keys of each.
StoreChanges ==
    {[areaName |-> "sync", changes |-> {key}] : key \in SettingKeys}
        \cup {[areaName |-> "sync", changes |-> {"theme"}],
              [areaName |-> "sync", changes |-> {"theme", "minimalUi"}],
              [areaName |-> "local", changes |-> {"keepLastN"}]}

\* The chrome.storage.onChanged listener taking every area for the sync area.
onChangedAnyArea(changes, areaName) ==
    IF changes \cap SettingKeys # {} THEN StorageApplyMs ELSE NoCall

\* The chrome.storage.onChanged listener of init: the delay it calls
\* scheduleApply with.
onChanged(changes, areaName) ==
    IF areaName # "sync" THEN NoCall
    ELSE IF changes \cap SettingKeys # {} THEN StorageApplyMs
    ELSE NoCall

\* The visibilitychange listener of init.
onVisibilityChange(visibilityState) ==
    IF visibilityState = "visible" THEN VisibleApplyMs ELSE NoCall

TimedStorageChangedIn(storeChanges) ==
    \E change \in storeChanges :
        TimedListener("TimedStorageChanged", onChanged(change.changes, change.areaName),
                      Event("storage", change.areaName, change.changes, ""))

\* TimedSpec follows the calls of scheduleApply: of the store changes, one
\* the listener calls scheduleApply for.
TimedStorageChanged ==
    TimedStorageChangedIn({[areaName |-> "sync", changes |-> {"keepLastN"}]})

\* The load listener of init ({once: true}).
TimedLoad ==
    /\ ~sched.loaded
    /\ TimedCall(Rearmed(applyTimer, sched.armedAt, sched.now, LoadApplyMs),
                 [OtherCaller EXCEPT !.loaded = TRUE, !.ev = Plain("load")])
    /\ last' = Did("TimedLoad")

TimedVisibleIn(visibilityStates) ==
    \E visibilityState \in visibilityStates :
        TimedListener("TimedVisible", onVisibilityChange(visibilityState),
                      Event("visibilitychange", "", {}, visibilityState))

TimedVisible == TimedVisibleIn({"visible"})

TimedNext ==
    \/ TimedTick
    \/ TimedTimerFires
    \/ TimedMutationBatch
    \/ TimedStorageChanged
    \/ TimedLoad
    \/ TimedVisible

TimedSpec == TimedInit /\ [][TimedNext]_vars

\* CallerSpec follows the listeners of init on every event they are given:
\* store changes of either area and any key, visibilitychange of a visible
\* and of a hidden document.
MaxCallerTime == 130    \* the time up to which the clock of CallerSpec runs

CallerNext ==
    \/ TimedTickTo(MaxCallerTime)
    \/ TimedTimerFires
    \/ TimedMutationBatch
    \/ TimedStorageChangedIn(StoreChanges)
    \/ TimedLoad
    \/ TimedVisibleIn({"visible", "hidden"})

CallerSpec == TimedInit /\ [][CallerNext]_vars

(***************************************************************************)
(* PopupSpec: the popup's Apply and Reset buttons (popup.js of the second  *)
(* variant, src/unnamed/part_000).  A click handler runs applyNow in       *)
(* steps: the write of the form's settings, the query for the active tab,  *)
(* the message to the content script, its response.  The content script    *)
(* is what answers: its handler writes the settings it normalised and      *)
(* replies with the result of its pass or with an error.                   *)
(***************************************************************************)
NotReachable == "Content script is not reachable. Open a ChatGPT tab and reload the page."

\* DEFAULT_SETTINGS of popup.js
PopupDefaults ==
    [keepLastN |-> DefaultKeepLastN, minimalUi |-> TRUE, collapseOwnMessages |-> TRUE,
     collapseCodeBlocks |-> TRUE]

\* loadSettings of popup.js
loadSettingsPopup(stored) ==
    [keepLastN |-> clampKeepLastNPopup(StorageGet(stored, DEFAULT_SETTINGS).keepLastN),
     minimalUi |-> ToBoolean(StorageGet(stored, DEFAULT_SETTINGS).minimalUi),
     collapseOwnMessages |-> ToBoolean(StorageGet(stored, DEFAULT_SETTINGS).collapseOwnMessages),
     collapseCodeBlocks |-> ToBoolean(StorageGet(stored, DEFAULT_SETTINGS).collapseCodeBlocks)]

writeForm(settings) ==
    [keepLastN |-> ToJsString(Num(clampKeepLastNPopup(Num(settings.keepLastN)))),
     minimalUi |-> settings.minimalUi,
     collapseOwnMessages |-> settings.collapseOwnMessages,
     collapseCodeBlocks |-> settings.collapseCodeBlocks]

readForm(form) ==
    [keepLastN |-> clampKeepLastNPopup(Str(form.keepLastN)),
     minimalUi |-> form.minimalUi,
     collapseOwnMessages |-> form.collapseOwnMessages,
     collapseCodeBlocks |-> form.collapseCodeBlocks]

setStatus(text, isError) ==
    [prefix |-> "", text |-> text, numbers |-> <<>>, isError |-> isError]

\* setStatus(String(error), true) of the click handlers' catch
StatusOfError(message) ==
    [prefix |-> "Error: ", text |-> message, numbers |-> <<>>, isError |-> TRUE]

\* What chrome.storage.sync.set(settings) stores, and the message of applyNow.
SettingsValues(settings) ==
    StoredSettings(settings.keepLastN, settings.minimalUi, settings.collapseOwnMessages,
                   settings.collapseCodeBlocks)

\* What the user types into keepLastN.
FormCounts == {<<"2">>, <<"0">>, <<"a", "b", "c">>, <<>>}

\* What the content script answers: the result of its pass, or the error
\* of its catch branch.
Responses ==
    {[ok |-> TRUE, hiddenCount |-> 0, totalCount |-> 0, error |-> ""],
     [ok |-> TRUE, hiddenCount |-> 1, totalCount |-> MaxTurns, error |-> ""],
     [ok |-> FALSE, hiddenCount |-> 0, totalCount |-> 0, error |-> "failed"]}

PopupInit ==
    /\ store \in InitialStores
    /\ popup = [NoPopup EXCEPT !.pc = "idle",
                               !.form = writeForm(loadSettingsPopup(store)),
                               !.status = setStatus("Ready.", FALSE)]
    /\ order = NoOrder
    /\ first = NoFirst
    /\ fin = NoInput
    /\ fout = NoOutput
    /\ sched = SchedIdle
    /\ doc = <<>>
    /\ nextId = 1
    /\ banners = <<>>
    /\ minimalUi = FALSE
    /\ state = [messages |-> <<>>, codeBlocks |-> <<>>]
    /\ applyTimer = NoTimer
    /\ timerPasses = 0
    /\ applies = {}
    /\ last = Did("init")
    /\ events = 0
    /\ sinceShowAll = "none"

popupRest ==
    <<doc, banners, minimalUi, state, applyTimer, timerPasses, applies, last, events,
      nextId, sinceShowAll, fin, fout, sched, order, first>>

PopupAtRest == popup.pc \in {"idle", "done", "failed"}

\* The user changes the form.
PopupEdit(count, ui, own, code) ==
    /\ PopupAtRest
    /\ popup' = [popup EXCEPT !.form = [keepLastN |-> count, minimalUi |-> ui,
                                        collapseOwnMessages |-> own,
                                        collapseCodeBlocks |-> code]]
    /\ popup' # popup
    /\ UNCHANGED <<store, popupRest>>

\* applyNow up to its first await: readForm, then saveSettings(settings)
\* is issued.
applyNow(p, stored, text) ==
    [p EXCEPT !.pc = "saving", !.settings = readForm(p.form),
              !.status = setStatus(text, FALSE), !.before = stored, !.sent = FALSE]

\* The click listener of applyBtn.
PopupClickApply ==
    /\ PopupAtRest
    /\ popup' = [applyNow(popup, store, "Applying...") EXCEPT !.op = "apply"]
    /\ UNCHANGED <<store, popupRest>>

\* The click listener of resetBtn: resetDefaults writes the defaults into
\* the form and calls applyNow.
PopupClickReset ==
    /\ PopupAtRest
    /\ popup' = [applyNow([popup EXCEPT !.form = writeForm(PopupDefaults)], store,
                          "Resetting...") EXCEPT !.op = "reset"]
    /\ UNCHANGED <<store, popupRest>>

\* The callback of chrome.storage.sync.set: applyNow goes on with
\* sendMessageToActiveTab, which asks for the active tab.
PopupSaved ==
    /\ popup.pc = "saving"
    /\ store' = StorageSet(store, SettingsValues(popup.settings))
    /\ popup' = [popup EXCEPT !.pc = "query"]
    /\ UNCHANGED popupRest

\* The write fails: the callback resolves all the same.
PopupSaveFails ==
    /\ popup.pc = "saving"
    /\ popup' = [popup EXCEPT !.pc = "query"]
    /\ UNCHANGED <<store, popupRest>>

\* The click listener's catch.
PopupFails(message) ==
    popup' = [popup EXCEPT !.pc = "failed", !.status = StatusOfError(message)]

\* chrome.tabs.query finds no tab.
PopupNoTab ==
    /\ popup.pc = "query"
    /\ PopupFails("No active tab found.")
    /\ UNCHANGED <<store, popupRest>>

\* chrome.tabs.query finds the tab: chrome.tabs.sendMessage is issued.
PopupTabFound ==
    /\ popup.pc = "query"
    /\ popup' = [popup EXCEPT !.pc = "sending"]
    /\ UNCHANGED <<store, popupRest>>

\* The callback of sendMessage runs with chrome.runtime.lastError set.
PopupUnreachable ==
    /\ popup.pc = "sending"
    /\ PopupFails(NotReachable)
    /\ UNCHANGED <<store, popupRest>>

\* The content script has handled TRIMMER_APPLY (it wrote nextSettings of
\* the message) and its response arrives.
PopupResponse(response) ==
    /\ popup.pc = "sending"
    /\ store' = StorageSet(store, nextSettings(SettingsValues(popup.settings)))
    /\ popup' = IF response.ok
                THEN [popup EXCEPT !.pc = "done", !.sent = TRUE,
                                   !.status = [setStatus("Active.", FALSE) EXCEPT
                                                  !.numbers = <<response.hiddenCount,
                                                                response.totalCount,
                                                                popup.settings.keepLastN>>]]
                ELSE [popup EXCEPT !.pc = "failed", !.sent = TRUE,
                                   !.status = StatusOfError(response.error)]
    /\ UNCHANGED popupRest

PopupNext ==
    \/ \E count \in FormCounts, ui \in BOOLEAN, own \in BOOLEAN, code \in BOOLEAN :
          PopupEdit(count, ui, own, code)
    \/ PopupClickApply
    \/ PopupClickReset
    \/ PopupSaved
    \/ PopupSaveFails
    \/ PopupNoTab
    \/ PopupTabFound
    \/ PopupUnreachable
    \/ \E response \in Responses : PopupResponse(response)

PopupSpec == PopupInit /\ [][PopupNext]_vars

(***************************************************************************)
(* OrderSpec: the settings a pass applies.  A write of the store, the      *)
(* delivery of its chrome.storage.onChanged event to the content script,   *)
(* the start of a pass (the timer callback calls applyTrimming, which      *)
(* issues chrome.storage.sync.get), the serving of that read and its       *)
(* callback are steps of their own.  Reads are served and called back in   *)
(* the order they were issued; a read that fails is left out.              *)
(***************************************************************************)
MaxWrites == 2      \* writes of the store in one run

Version == Len(order.history) - 1

\* The settings taken when the pass is scheduled.
settingsWhenScheduled(stored, storedWhenArmed) == loadSettings(storedWhenArmed)

\* `const settings = await loadSettings()` of applyTrimming: the settings
\* are those of the store when the read is served.
settingsOfPass(stored, storedWhenArmed) == loadSettings(stored)

OrderInit ==
    /\ doc = InitialDoc(MaxTurns, "primary")
    /\ nextId = MaxTurns + 1
    /\ banners = <<>>
    /\ minimalUi = FALSE
    /\ state = [messages |-> <<>>, codeBlocks |-> <<>>]
    /\ store \in InitialStores
    /\ order = [NoOrder EXCEPT !.history = <<store>>]
    /\ applyTimer = InitialApplyMs       \* init: scheduleApply(TIMING.initialApplyMs)
    /\ timerPasses = 0
    /\ applies = {}
    /\ last = Did("init")
    /\ events = 0
    /\ sinceShowAll = "none"
    /\ fin = NoInput
    /\ fout = NoOutput
    /\ sched = SchedIdle
    /\ popup = NoPopup
    /\ first = NoFirst

orderRest ==
    <<timerPasses, applies, events, nextId, sinceShowAll, fin, fout, sched, popup, first>>

\* A writer (the popup, another device) writes settings; the browser
\* queues the onChanged event for the content script.
OrderWrite(value) ==
    /\ Version < MaxWrites
    /\ store' = StorageSet(store, value)
    /\ ChangedKeys(store, store') \cap SettingKeys # {}
    /\ order' = [order EXCEPT !.history = Append(order.history, store'),
                              !.changed = order.changed + 1]
    /\ UNCHANGED <<domVars, applyTimer, last, orderRest>>

\* The onChanged listener runs: scheduleApply(TIMING.storageApplyMs).
OrderChanged ==
    /\ order.changed > 0
    /\ applyTimer' = onStorageChanged(applyTimer, SettingKeys)
    /\ order' = [order EXCEPT !.changed = order.changed - 1, !.armed = Version]
    /\ UNCHANGED <<domVars, store, last, orderRest>>

\* The host changes the page: the observer's callback schedules a pass.
OrderMutation ==
    /\ applyTimer' = scheduleApply(applyTimer, ApplyDebounceMs)
    /\ order' = [order EXCEPT !.armed = Version]
    /\ order' # order \/ applyTimer' # applyTimer
    /\ UNCHANGED <<domVars, store, last, orderRest>>

\* The timer callback: applyTrimming starts and issues its read.
OrderTimerFires ==
    /\ applyTimer # NoTimer
    /\ Len(order.passes) < MaxInFlight
    /\ applyTimer' = NoTimer
    /\ order' = [order EXCEPT !.passes = Append(order.passes,
                                  [NoPass EXCEPT !.armed = order.armed, !.started = Version])]
    /\ UNCHANGED <<domVars, store, last, orderRest>>

\* The browser serves the oldest read not yet served.
OrderServed(i) ==
    /\ i \in 1..Len(order.passes)
    /\ ~order.passes[i].served
    /\ \A j \in 1..(i - 1) : order.passes[j].served
    /\ order' = [order EXCEPT !.passes[i].served = TRUE,
                              !.passes[i].read = Version,
                              !.passes[i].settings =
                                  settingsOfPass(store, order.history[order.passes[i].armed + 1])]
    /\ UNCHANGED <<domVars, store, applyTimer, last, orderRest>>

\* The callback of the oldest read: the rest of applyTrimming runs, and
\* the observer's callback after it.
OrderPassRuns(pass, settled) ==
    /\ TimerPassDone(settled.settings, pass)
    /\ order' = [order EXCEPT !.passes = Tail(order.passes), !.done = settled,
                              !.armed = IF ChildListView(doc, banners)
                                           # ChildListView(pass.doc, pass.banners)
                                        THEN Version ELSE order.armed]

OrderPassDone ==
    /\ Len(order.passes) > 0
    /\ order.passes[1].served
    /\ OrderPassRuns(applyTrimming(order.passes[1].settings, doc, banners, state),
                     order.passes[1])
    /\ UNCHANGED <<store, orderRest>>

OrderNext ==
    \/ \E value \in PopupWrites : OrderWrite(value)
    \/ OrderChanged
    \/ OrderMutation
    \/ OrderTimerFires
    \/ \E i \in 1..Len(order.passes) : OrderServed(i)
    \/ OrderPassDone

OrderSpec == OrderInit /\ [][OrderNext]_vars

(***************************************************************************)
(* OverlapSpec: passes that overlap.  As OrderSpec, with the pass of a     *)
(* TRIMMER_APPLY command beside the passes the timer starts, the host      *)
(* appending a turn, and the reads of the passes in flight                 *)
(* served and called back in any order.  The event loop runs what is due:  *)
(* storage events are delivered, an armed timer's callback runs, reads are *)
(* served and call back.                                                   *)
(***************************************************************************)
\* The page holds all turns but one when the content script starts.
OverlapInit ==
    /\ doc = InitialDoc(MaxTurns - 1, "primary")
    /\ nextId = MaxTurns
    /\ banners = <<>>
    /\ minimalUi = FALSE
    /\ state = [messages |-> <<>>, codeBlocks |-> <<>>]
    /\ store \in InitialStores
    /\ order = [NoOrder EXCEPT !.history = <<store>>]
    /\ applyTimer = InitialApplyMs       \* init: scheduleApply(TIMING.initialApplyMs)
    /\ timerPasses = 0
    /\ applies = {}
    /\ last = Did("init")
    /\ events = 0
    /\ sinceShowAll = "none"
    /\ fin = NoInput
    /\ fout = NoOutput
    /\ sched = SchedIdle
    /\ popup = NoPopup
    /\ first = NoFirst

\* The payloads of the commands: those of ApplyMessages that hold all
\* four fields.
OverlapMessages == {m \in ApplyMessages : \A key \in SettingKeys : m[key] # Undefined}

\* The write of a TRIMMER_APPLY command has called back: the store holds
\* nextSettings(message), the browser queues the onChanged event, and
\* applyTrimming starts and issues its read.
OverlapApply(message) ==
    /\ Version < MaxWrites
    /\ Len(order.passes) < MaxInFlight
    /\ store' = StorageSet(store, nextSettings(message))
    /\ order' = [order EXCEPT
                    !.history = Append(order.history, store'),
                    !.changed = IF ChangedKeys(store, store') \cap SettingKeys # {}
                                THEN order.changed + 1 ELSE order.changed,
                    !.passes = Append(order.passes,
                                      [NoPass EXCEPT !.armed = Version + 1,
                                                     !.started = Version + 1,
                                                     !.command = TRUE, !.msg = message])]
    /\ UNCHANGED <<domVars, applyTimer, last, orderRest>>

\* The browser serves a read, whichever.
OverlapServed(i) ==
    /\ i \in 1..Len(order.passes)
    /\ ~order.passes[i].served
    /\ order' = [order EXCEPT !.passes[i].served = TRUE,
                              !.passes[i].read = Version,
                              !.passes[i].settings =
                                  settingsOfPass(store, order.history[order.passes[i].armed + 1])]
    /\ UNCHANGED <<domVars, store, applyTimer, last, orderRest>>

\* The callback of a served read: the rest of applyTrimming runs, the
\* observer's callback after it, and a command's pass sends its response.
OverlapPassRuns(i, settled, pass) ==
    /\ IF settled.command
       THEN ApplyPassDone([msg |-> settled.msg, wrote |-> TRUE,
                           clean |-> settled.read = settled.started],
                          settled.settings, pass)
       ELSE TimerPassDone(settled.settings, pass)
    /\ order' = [order EXCEPT !.passes = RemoveAt(order.passes, i)]

OverlapPassDone(i) ==
    /\ i \in 1..Len(order.passes)
    /\ order.passes[i].served
    /\ OverlapPassRuns(i, order.passes[i],
                       applyTrimming(order.passes[i].settings, doc, banners, state))
    /\ UNCHANGED <<store, orderRest>>

OverlapNext ==
    \/ \E message \in OverlapMessages : OverlapApply(message)
    \/ OrderChanged
    \/ OrderTimerFires
    \/ \E i \in 1..Len(order.passes) : OverlapServed(i)
    \/ \E i \in 1..Len(order.passes) : OverlapPassDone(i)
    \/ \E kind \in {"user", "code"} : HostAppendTurn(kind)
    \/ HostRetagTurn(1)

\* The timer's callback as far as the timer goes (no other step disarms
\* the timer).
OverlapTimerDue ==
    /\ applyTimer # NoTimer
    /\ Len(order.passes) < MaxInFlight
    /\ applyTimer' = NoTimer

\* Weak fairness of the serving of a read and of its callback is written
\* out, WF_vars(A) being []<>~ENABLED <<A>>_vars \/ []<><<A>>_vars: a read
\* can be served iff a pass in flight is not served, a callback can run iff
\* a pass in flight is served; the steps are those that serve a read and
\* that take a pass out of the passes in flight.
Unserved == {i \in 1..Len(order.passes) : ~order.passes[i].served}
Served == {i \in 1..Len(order.passes) : order.passes[i].served}

OverlapFairness ==
    /\ WF_<<applyTimer>>(OverlapTimerDue)
    /\ WF_vars(OrderChanged)
    /\ []<>(Unserved = {}) \/ []<><<Cardinality(Served') > Cardinality(Served)>>_vars
    /\ []<>(Served = {}) \/ []<><<Len(order'.passes) < Len(order.passes)>>_vars

OverlapSpec == OverlapInit /\ [][OverlapNext]_vars /\ OverlapFairness

(***************************************************************************)
(* Properties.                                                             *)
(***************************************************************************)
\* The task just run completed a reconciliation pass.
PassDone == last.act \in {"TimerPassDone", "ApplyPassDone"}

Located == getConversationTurns(doc)
Cut(totalCount, keepLastN) == IF totalCount - keepLastN > 0 THEN totalCount - keepLastN ELSE 0

\* C1: when a pass has completed with T >= 1 located turns and the limit K
\* it read, the located turn at position i (0-based) carries the hidden
\* marker iff i < max(0, T - K), and the pass reported hiddenCount =
\* max(0, T - K) and totalCount = T.
C1_Partition ==
    (PassDone /\ last.result.totalCount >= 1) =>
        /\ last.settings.keepLastN \in 1..500
        /\ last.result.totalCount = Len(Located)
        /\ last.result.hiddenCount = Cut(Len(Located), last.settings.keepLastN)
        /\ \A i \in 0..(Len(Located) - 1) :
              /\ doc[Located[i + 1]].hidden <=> i < Cut(Len(Located), last.settings.keepLastN)
              /\ doc[Located[i + 1]].attr = doc[Located[i + 1]].hidden

\* A pass that ran after an external event hid the oldest of MaxTurns turns
\* and left the others visible.
C1_Witness ==
    /\ PassDone
    /\ events > 0
    /\ Len(Located) = MaxTurns
    /\ last.result.hiddenCount = 1
    /\ doc[Located[1]].hidden
    /\ ~doc[Located[MaxTurns]].hidden

\* C2: when a pass has completed there is at most one banner; there is one
\* iff the pass's hiddenCount is > 0, and its text is "{hidden} older
\* messages hidden. Showing the last {keep} turns ({total} total)." with the
\* pass's numbers (for 10 turns and a limit of 6: 4, 6 and 10).
C2_Banner ==
    /\ PassDone =>
          /\ Len(banners) <= 1
          /\ Len(banners) = 1 <=> last.result.hiddenCount > 0
          /\ Len(banners) = 1 =>
                banners[1].text =
                    ToString(last.result.hiddenCount)
                        \o " older messages hidden. Showing the last "
                        \o ToString(last.settings.keepLastN) \o " turns ("
                        \o ToString(last.result.totalCount) \o " total)."
    /\ BannerText(4, 10, 6) = "4 older messages hidden. Showing the last 6 turns (10 total)."

\* A pass after an external event left the banner for two hidden turns.
C2_Witness ==
    /\ PassDone
    /\ events > 0
    /\ Len(banners) = 1
    /\ last.result.hiddenCount = 2
    /\ banners[1].text = "2 older messages hidden. Showing the last 1 turns (3 total)."

\* C3 (as the specification states it): a pass run on the document a pass
\* has just left, with the same settings, changes nothing: the same hidden
\* markers, the same banner, the same toggles in the same places, the same
\* collapse state.
C3_Idempotent ==
    PassDone =>
        /\ applyTrimming(last.settings, doc, banners, state).doc = doc
        /\ applyTrimming(last.settings, doc, banners, state).banners = banners
        /\ applyTrimming(last.settings, doc, banners, state).state = state

\* What Number.parseInt(String(value), 10) gives for the value given to clampKeepLastN.
ParsedInput == ParseInt(ToJsString(fin.value))

\* C4: clampKeepLastN returns an integer in [1, 500]: the default 6 for a
\* value that does not parse as an integer, otherwise min(500, max(1,
\* parsed)); 0, -5, "abc" and 501 give 1, 1, 6 and 500; the copies of the
\* content script and of the popups agree on every input.
C4_Clamp ==
    (fout.done /\ fin.kind = "value") =>
        /\ fout.content \in 1..500
        /\ ParsedInput.t # "num" => fout.content = 6
        /\ (ParsedInput.t = "num" /\ ParsedInput.n < 1) => fout.content = 1
        /\ (ParsedInput.t = "num" /\ ParsedInput.n > 500) => fout.content = 500
        /\ (ParsedInput.t = "num" /\ ParsedInput.n \in 1..500) => fout.content = ParsedInput.n
        /\ fin.value = Num(0) => fout.content = 1
        /\ fin.value = Num(0 - 5) => fout.content = 1
        /\ fin.value = Str(<<"a", "b", "c">>) => fout.content = 6
        /\ fin.value = Num(501) => fout.content = 500
        /\ fin.value = Str(<<"1", "2", "p", "x">>) => fout.content = 12
        /\ fin.value = Str(<<"-", "5">>) => fout.content = 1
        /\ fin.value \in {Undefined, Null, NaNValue, Bool(TRUE), Str(<<>>)} => fout.content = 6
        /\ fout.literal = fout.content
        /\ fout.popup = fout.content

\* The three copies were given 0 and each returned 1.
C4_Witness ==
    /\ fout.done
    /\ fin.kind = "value"
    /\ fin.value = Num(0)
    /\ fout.content = 1
    /\ fout.literal = 1
    /\ fout.popup = 1

\* What the store gives loadSettings for keepLastN: the stored value, the
\* default when the key is not stored.
StoredCount ==
    IF "keepLastN" \in DOMAIN fin.stored THEN fin.stored.keepLastN ELSE Num(6)
ParsedStored == ParseInt(ToJsString(StoredCount))

FlagsAreBooleans ==
    /\ fout.settings.minimalUi \in BOOLEAN
    /\ fout.settings.collapseOwnMessages \in BOOLEAN
    /\ fout.settings.collapseCodeBlocks \in BOOLEAN
    /\ \A key \in {"minimalUi", "collapseOwnMessages", "collapseCodeBlocks"} :
          /\ key \notin DOMAIN fin.stored => fout.settings[key] = TRUE
          /\ (key \in DOMAIN fin.stored /\ fin.stored[key].t = "bool") =>
                fout.settings[key] = (fin.stored[key] = Bool(TRUE))

\* C5 (amended): loadSettings yields a normalised Settings value: a stored
\* keepLastN that does not parse as an integer gives the default 6, a stored
\* integer below 1 gives 1 and one above 500 gives 500, one in [1, 500] is
\* kept, and every flag is returned as a boolean.
C5_LoadSettings ==
    (fout.done /\ fin.kind = "store") =>
        /\ ParsedStored.t # "num" => fout.settings.keepLastN = 6
        /\ (ParsedStored.t = "num" /\ ParsedStored.n < 1) => fout.settings.keepLastN = 1
        /\ (ParsedStored.t = "num" /\ ParsedStored.n > 500) => fout.settings.keepLastN = 500
        /\ (ParsedStored.t = "num" /\ ParsedStored.n \in 1..500) =>
              fout.settings.keepLastN = ParsedStored.n
        /\ FlagsAreBooleans

\* loadSettings read a store holding keepLastN = 501 and gave 500.
C5_Witness ==
    /\ fout.done
    /\ fin.kind = "store"
    /\ StoredCount = Num(501)
    /\ fout.settings.keepLastN = 500

\* C5 (as the specification states it): a stored keepLastN that is
\* non-numeric or an integer outside [1, 500] gives the default 6, and every
\* flag is returned as a boolean.
C5_DefaultWhenOutOfRange ==
    (fout.done /\ fin.kind = "store") =>
        /\ (ParsedStored.t # "num" \/ ParsedStored.n \notin 1..500) =>
              fout.settings.keepLastN = 6
        /\ FlagsAreBooleans

\* The toggles and collapsed markers of the document: everything inside
\* the turns.
Insides(document) ==
    [k \in 1..Len(document) |-> [wrap |-> document[k].wrap, body |-> document[k].body]]

\* C6: a TRIMMER_SHOW_ALL command leaves no located turn with the hidden
\* marker and no banner, replies {ok: true, hiddenCount: 0} once, and
\* changes neither the stored settings nor the collapse state, the toggles
\* or any collapsed marker.
C6_ShowAll ==
    [][last'.act = "ShowAll" =>
          /\ \A k \in 1..Len(getConversationTurns(doc')) :
                /\ ~doc'[getConversationTurns(doc')[k]].hidden
                /\ ~doc'[getConversationTurns(doc')[k]].attr
          /\ banners' = <<>>
          /\ last'.replies = 1
          /\ last'.reply.fields = {"ok", "hiddenCount"}
          /\ last'.reply.ok = TRUE
          /\ last'.reply.hiddenCount = 0
          /\ store' = store
          /\ state' = state
          /\ minimalUi' = minimalUi
          /\ Insides(doc') = Insides(doc)]_vars

\* TRIMMER_SHOW_ALL arrived at rest while turns were hidden under a banner,
\* with toggles in the document.
C6_Witness ==
    /\ last.act = "ShowAll"
    /\ sinceShowAll = "clean"
    /\ HiddenLocated(doc) = {}
    /\ \E k \in 1..Len(doc) : \E j \in 1..Len(doc[k].body) : IsButton(doc[k].body[j])

\* C7 (as the specification states it): from a TRIMMER_SHOW_ALL received at
\* rest until the next external event (a host mutation, a command, a write
\* of the store), no located turn carries the hidden marker.
C7_StaysVisible == sinceShowAll = "clean" => HiddenLocated(doc) = {}

\* C8: a TRIMMER_STATUS command changes nothing in the document, the
\* store, the collapse state or the scheduler, and replies once with
\* {ok: true, totalCount: the number of located turns, hiddenCount: the
\* number of located turns carrying the hidden class}.
C8_Status ==
    [][last'.act = "Status" =>
          /\ UNCHANGED <<doc, banners, minimalUi, state, store, applyTimer, timerPasses,
                         applies>>
          /\ last'.replies = 1
          /\ last'.reply.fields = {"ok", "totalCount", "hiddenCount"}
          /\ last'.reply.ok = TRUE
          /\ last'.reply.totalCount = Len(getConversationTurns(doc))
          /\ last'.reply.hiddenCount =
                Cardinality({k \in 1..Len(getConversationTurns(doc)) :
                                doc[getConversationTurns(doc)[k]].hidden})]_vars

\* TRIMMER_STATUS was answered for a document with hidden and visible
\* located turns.
C8_Witness ==
    /\ last.act = "Status"
    /\ last.reply.hiddenCount >= 1
    /\ last.reply.totalCount > last.reply.hiddenCount

\* The reply of the TRIMMER_APPLY command whose pass has just completed.
ApplyReplied ==
    /\ last.replies = 1
    /\ last.reply.fields = {"ok", "hiddenCount", "totalCount", "keepLastN"}
    /\ last.reply.ok = TRUE
    /\ last.reply.totalCount = Len(Located)
    /\ last.reply.hiddenCount = Cut(last.reply.totalCount, last.reply.keepLastN)

C10_FailureAnswered ==
    last.act = "ApplyLoadFailed" =>
        /\ last.replies = 1
        /\ last.reply.fields = {"ok", "error"}
        /\ last.reply.ok = FALSE

\* What applyTrimming leaves when it runs with the default settings.
DefaultPass == applyTrimming(loadSettings(<<>>), doc, banners, state)

\* C11 (as the specification states it): when the storage read of a pass
\* fails (the callback is invoked without a result), loadSettings resolves
\* with the defaults {6, true, true, true} and the pass completes with
\* them: the task of the callback leaves the document, the banner, the
\* minimal-UI class and the collapse state as applyTrimming leaves them for
\* the default settings.
C11_ReadNeverFails ==
    [][last'.act \in {"TimerLoadFailed", "ApplyLoadFailed"} =>
          /\ loadSettings(<<>>) =
                [keepLastN |-> 6, minimalUi |-> TRUE, collapseOwnMessages |-> TRUE,
                 collapseCodeBlocks |-> TRUE]
          /\ doc' = DefaultPass.doc
          /\ banners' = DefaultPass.banners
          /\ minimalUi' = DefaultPass.minimalUi
          /\ state' = DefaultPass.state]_vars

\* The sibling before the node n of the turn; an item of no type if the
\* node is the first child of its parent.
PreviousSibling(turn, type, n) ==
    IF LocOfNode(turn, type, n).i > 1
    THEN Items(turn, LocOfNode(turn, type, n).c)[LocOfNode(turn, type, n).i - 1]
    ELSE Node("none", 0)

\* The node n of the turn carries the collapsed marker iff v, and the
\* toggle before it is the toggle of `key`, labelled for v.
Rendered(turn, type, n, btnType, key, v, showLabel, hideLabel) ==
    /\ ItemAt(turn, LocOfNode(turn, type, n)).c = v
    /\ PreviousSibling(turn, type, n).t = btnType
    /\ PreviousSibling(turn, type, n).key = key
    /\ PreviousSibling(turn, type, n).exp = (IF v THEN "false" ELSE "true")
    /\ PreviousSibling(turn, type, n).lab = (IF v THEN showLabel ELSE hideLabel)

\* The code blocks of the located turn at position i (0-based).
LocatedTurn(i) == doc[Located[i + 1]]
BlocksOf(i) == PreBlocks(DocOrder(LocatedTurn(i)))
BlockKey(i, j) == CodeKey(getTurnKey(LocatedTurn(i), i), j)
OwnKey(i) == MessageKey(getTurnKey(LocatedTurn(i), i))

CodeRendered ==
    \A i \in 0..(Len(Located) - 1) : \A j \in 0..(Len(BlocksOf(i)) - 1) :
        /\ MapHas(state.codeBlocks, BlockKey(i, j))
        /\ Rendered(LocatedTurn(i), "pre", BlocksOf(i)[j + 1], "cbtn", BlockKey(i, j),
                    state.codeBlocks[BlockKey(i, j)], "Show code", "Hide code")

MessagesRendered ==
    \A i \in 0..(Len(Located) - 1) :
        findUserMessageNode(LocatedTurn(i)) # 0 =>
            /\ MapHas(state.messages, OwnKey(i))
            /\ Rendered(LocatedTurn(i), "msg", findUserMessageNode(LocatedTurn(i)), "mbtn",
                        OwnKey(i), state.messages[OwnKey(i)], "Show my message",
                        "Hide my message")

\* Every entry of the map `before` is in `after` with the same value.
Kept(before, after) ==
    \A key \in DOMAIN before : key \in DOMAIN after /\ after[key] = before[key]

\* C12: a reconciliation pass leaves every entry of the collapse state as
\* it found it (what a click left under key k is still there after the
\* pass), and when a pass with the collapse feature enabled has completed,
\* every code block of a located turn, also one the host created since the
\* last pass, carries the collapsed marker iff the state of the key derived
\* for it is true, and the toggle before it has that key, and the label and
\* aria-expanded of that state.  The same for user messages.
C12_Persistence ==
    /\ [](PassDone =>
             /\ last.settings.collapseCodeBlocks => CodeRendered
             /\ last.settings.collapseOwnMessages => MessagesRendered)
    /\ [][last'.act \in {"TimerPassDone", "ApplyPassDone"} =>
             /\ Kept(state.codeBlocks, state'.codeBlocks)
             /\ Kept(state.messages, state'.messages)]_vars

\* A pass has run after a click expanded a code block and the host replaced
\* the block by a new node: the state is still false, the new node is not
\* collapsed and its toggle reads "Hide code".
C12_Witness ==
    /\ PassDone
    /\ last.settings.collapseCodeBlocks
    /\ \E i \in 0..(Len(Located) - 1) :
          /\ Len(BlocksOf(i)) = 1
          /\ BlocksOf(i)[1] # 1
          /\ MapHas(state.codeBlocks, BlockKey(i, 0))
          /\ state.codeBlocks[BlockKey(i, 0)] = FALSE
          /\ ~ItemAt(LocatedTurn(i), LocOfNode(LocatedTurn(i), "pre", BlocksOf(i)[1])).c
          /\ PreviousSibling(LocatedTurn(i), "pre", BlocksOf(i)[1]).lab = "Hide code"

\* The user-message node of turn t of the document carries the collapsed marker.
MessageCollapsedIn(document, t) ==
    /\ findUserMessageNode(document[t]) # 0
    /\ ItemAt(document[t], LocOfNode(document[t], "msg", findUserMessageNode(document[t]))).c

\* The positions (0-based) turn t of the document has among the located turns.
PositionsOf(document, t) ==
    {p \in 0..(Len(getConversationTurns(document)) - 1) : getConversationTurns(document)[p + 1] = t}

\* C13: a click whose target is inside a turn whose user-message node
\* carries the collapsed marker, and inside no message toggle, removes the
\* marker from that node in the task of the click (the capturing listener of
\* the document runs before the listeners of the target); when the turn is
\* a located one, the state of the message's key is false afterwards and a
\* reconciliation pass that follows leaves the message expanded.
C13_EscapeHatch ==
    [][(/\ last'.act \in {"ClickInside", "ClickCodeToggle"}
        /\ MessageCollapsedIn(doc, last'.click.turn)) =>
          /\ ~MessageCollapsedIn(doc', last'.click.turn)
          /\ \A p \in PositionsOf(doc, last'.click.turn) :
                /\ MapHas(state'.messages,
                          MessageKey(getTurnKey(doc[last'.click.turn], p)))
                /\ state'.messages[MessageKey(getTurnKey(doc[last'.click.turn], p))] = FALSE
                /\ ~MessageCollapsedIn(
                       applyTrimming(loadSettings(<<>>), doc', banners', state').doc,
                       last'.click.turn)]_vars

\* A click inside a located turn has expanded its message: the message is
\* not collapsed, its state is false and its toggle reads "Hide my message".
C13_Witness ==
    /\ last.act = "ClickInside"
    /\ PositionsOf(doc, last.click.turn) # {}
    /\ findUserMessageNode(doc[last.click.turn]) # 0
    /\ ~MessageCollapsedIn(doc, last.click.turn)
    /\ \E p \in PositionsOf(doc, last.click.turn) :
          /\ MapHas(state.messages, MessageKey(getTurnKey(doc[last.click.turn], p)))
          /\ state.messages[MessageKey(getTurnKey(doc[last.click.turn], p))] = FALSE
    /\ PreviousSibling(doc[last.click.turn], "msg",
                       findUserMessageNode(doc[last.click.turn])).lab = "Hide my message"

\* The document holds no toggle of the kind and no node of the kind with
\* the collapsed marker.
NoneOfKind(document, btnType, nodeType) ==
    \A t \in 1..Len(document) : \A k \in 1..Len(DocOrder(document[t])) :
        /\ DocOrder(document[t])[k].t # btnType
        /\ ~(DocOrder(document[t])[k].t = nodeType /\ DocOrder(document[t])[k].c)

\* C14 (as the specification states it): when a pass has completed whose
\* settings have collapseOwnMessages (resp. collapseCodeBlocks) disabled,
\* the document holds no message (resp. code) toggle and no user message
\* (resp. code block) with the collapsed marker, however many turns the
\* pass located, zero included.
C14_DisabledMeansGone ==
    PassDone =>
        /\ ~last.settings.collapseOwnMessages => NoneOfKind(doc, "mbtn", "msg")
        /\ ~last.settings.collapseCodeBlocks => NoneOfKind(doc, "cbtn", "pre")

\* The places (turn, position in document order) of the toggles of the kind
\* tagged with the key, in the whole document.
TogglesOf(document, btnType, key) ==
    UNION {{<<t, k>> : k \in {j \in 1..Len(DocOrder(document[t])) :
                                  /\ DocOrder(document[t])[j].t = btnType
                                  /\ DocOrder(document[t])[j].key = key}} :
           t \in 1..Len(document)}

\* C15: when a pass with collapseOwnMessages enabled has completed, for
\* every located turn that has a user-message node the document holds
\* exactly one message toggle tagged with the message's key, and that toggle
\* is the sibling immediately before the message node; also after the host
\* has re-inserted the message node elsewhere in the turn or replaced it.
C15_OneMessageToggle ==
    (PassDone /\ last.settings.collapseOwnMessages) =>
        \A i \in 0..(Len(Located) - 1) :
            findUserMessageNode(LocatedTurn(i)) # 0 =>
                /\ Cardinality(TogglesOf(doc, "mbtn", OwnKey(i))) = 1
                /\ PreviousSibling(LocatedTurn(i), "msg",
                                   findUserMessageNode(LocatedTurn(i))).t = "mbtn"
                /\ PreviousSibling(LocatedTurn(i), "msg",
                                   findUserMessageNode(LocatedTurn(i))).key = OwnKey(i)

\* A pass has run after the host moved a message node, which had its toggle,
\* into the wrapper: the one toggle of the key is in the wrapper, before the
\* message node.
C15_Witness ==
    /\ PassDone
    /\ last.settings.collapseOwnMessages
    /\ events > 0
    /\ \E i \in 0..(Len(Located) - 1) :
          /\ Len(LocatedTurn(i).wrap) = 2
          /\ LocatedTurn(i).wrap[1].t = "mbtn"
          /\ LocatedTurn(i).wrap[1].key = OwnKey(i)
          /\ LocatedTurn(i).wrap[2].t = "msg"
          /\ LocatedTurn(i).body = <<>>
          /\ Cardinality(TogglesOf(doc, "mbtn", OwnKey(i))) = 1

\* C16 (as the specification states it): when a pass with
\* collapseCodeBlocks enabled has completed, for every code block of a
\* located turn the document holds exactly one code toggle tagged with the
\* block's key (turn identity, "code-block", ordinal of the block in its
\* turn), and that toggle is the sibling immediately before the block; also
\* after the host has moved the block to another parent inside its turn.
C16_OneCodeToggle ==
    (PassDone /\ last.settings.collapseCodeBlocks) =>
        \A i \in 0..(Len(Located) - 1) : \A j \in 0..(Len(BlocksOf(i)) - 1) :
            /\ Cardinality(TogglesOf(doc, "cbtn", BlockKey(i, j))) = 1
            /\ PreviousSibling(LocatedTurn(i), "pre", BlocksOf(i)[j + 1]).t = "cbtn"
            /\ PreviousSibling(LocatedTurn(i), "pre", BlocksOf(i)[j + 1]).key = BlockKey(i, j)

\* The sibling after the item (type, n) of the turn; an item of no type if
\* the item is the last child of its parent.
NextSibling(turn, type, n) ==
    IF LocOfNode(turn, type, n).i < Len(Items(turn, LocOfNode(turn, type, n).c))
    THEN Items(turn, LocOfNode(turn, type, n).c)[LocOfNode(turn, type, n).i + 1]
    ELSE Node("none", 0)

\* The toggle a click hit, as the click left it, and the node it precedes.
HitToggle == ItemAt(doc'[last'.click.turn], LocOfNode(doc'[last'.click.turn],
                                                       IF last'.act = "ClickCodeToggle"
                                                       THEN "cbtn" ELSE "mbtn",
                                                       last'.click.b))
HitNode == NextSibling(doc'[last'.click.turn],
                       IF last'.act = "ClickCodeToggle" THEN "cbtn" ELSE "mbtn",
                       last'.click.b)

\* The click negated the entry of the toggle's key in the map and changed
\* no other entry of it; the toggle shows the new state, and so does the
\* node of the kind the toggle precedes, if it precedes one.
ClickContract(before, after, nodeType, showLabel, hideLabel) ==
    /\ DOMAIN after = DOMAIN before
    /\ \A key \in DOMAIN before :
          after[key] = (IF key = last'.click.key THEN ~before[key] ELSE before[key])
    /\ HitToggle.exp = (IF after[last'.click.key] THEN "false" ELSE "true")
    /\ HitToggle.lab = (IF after[last'.click.key] THEN showLabel ELSE hideLabel)
    /\ HitNode.t = nodeType => HitNode.c = after[last'.click.key]

\* C17 (as the specification states it): a click on the toggle of key k
\* negates state[k], changes no other entry of the collapse state, starts
\* no pass, and leaves the node the toggle precedes (also a node the host
\* put there after the toggle was created) with the collapsed marker iff
\* the new state[k] is true, the toggle's label and aria-expanded matching.
C17_ClickContract ==
    [][/\ last'.act = "ClickCodeToggle" =>
             /\ ClickContract(state.codeBlocks, state'.codeBlocks, "pre", "Show code",
                              "Hide code")
             /\ UNCHANGED <<timerPasses, applies>>
       /\ last'.act = "ClickMessageToggle" =>
             /\ ClickContract(state.messages, state'.messages, "msg", "Show my message",
                              "Hide my message")
             /\ state'.codeBlocks = state.codeBlocks
             /\ UNCHANGED <<timerPasses, applies>>]_vars

\* The turn a click hit holds a message toggle tagged with the key.
HatchKey(key) ==
    \E k \in 1..Len(DocOrder(doc[last'.click.turn])) :
        /\ DocOrder(doc[last'.click.turn])[k].t = "mbtn"
        /\ DocOrder(doc[last'.click.turn])[k].key = key

\* One step's change of one map of the collapse state: no entry is
\* removed; an entry is added only by a completed pass, with the value
\* true; the value of an entry is changed only by a click on the toggle of
\* its key (clickAct) or, if the map is the messages' (hatch), to false by
\* the capturing listener for a click inside the message's turn.
Lifecycle(before, after, clickAct, hatch) ==
    /\ DOMAIN before \subseteq DOMAIN after
    /\ \A key \in DOMAIN after \ DOMAIN before :
          /\ after[key] = TRUE
          /\ last'.act \in {"TimerPassDone", "ApplyPassDone"}
    /\ \A key \in DOMAIN before :
          after[key] # before[key] =>
              \/ last'.act = clickAct /\ last'.click.key = key
              \/ /\ hatch
                 /\ last'.act \in {"ClickInside", "ClickCodeToggle"}
                 /\ after[key] = FALSE
                 /\ HatchKey(key)

\* C18: an entry of the collapse state is created only by a reconciliation
\* pass, with the value true; afterwards its value is changed only by a
\* click on the toggle of its key or by the escape-hatch expansion; no
\* pass, TRIMMER_APPLY, TRIMMER_SHOW_ALL, TRIMMER_STATUS, cleanup, timer
\* or host step changes or removes an entry.
C18_Lifecycle ==
    [][/\ Lifecycle(state.messages, state'.messages, "ClickMessageToggle", TRUE)
       /\ Lifecycle(state.codeBlocks, state'.codeBlocks, "ClickCodeToggle", FALSE)]_vars

\* A click on a code toggle has set the entry of its key to false while the
\* message entries, created by a pass, are still true.
C18_Witness ==
    /\ last.act = "ClickCodeToggle"
    /\ MapHas(state.codeBlocks, last.click.key)
    /\ state.codeBlocks[last.click.key] = FALSE
    /\ DOMAIN state.messages # {}
    /\ \A key \in DOMAIN state.messages : state.messages[key] = TRUE

\* The passes that have started and wait for their settings read.
PassesAwaitingRead == timerPasses + Cardinality({a \in applies : a.stage = "loading"})

\* C20 (as the specification states it): at any time at most one
\* reconciliation pass has started and not completed, whether started by
\* the debounce timer or by a TRIMMER_APPLY command.
C20_OnePassAtATime == PassesAwaitingRead <= 1

\* The call of scheduleApply just made left its own timer pending, armed
\* now with the caller's delay, whatever was pending before.
CallArms ==
    /\ last.act \in {"TimedMutationBatch", "TimedStorageChanged", "TimedLoad", "TimedVisible"} =>
          sched.armedAt = sched.now
    /\ last.act = "TimedMutationBatch" => applyTimer = 120
    /\ last.act \in {"TimedStorageChanged", "TimedLoad"} => applyTimer = 50
    /\ last.act = "TimedVisible" => applyTimer = 80

\* The timer started one pass for the burst, 120 time-units after the
\* burst's last batch, and none before.
BurstServed ==
    /\ sched.starts >= 1 => (sched.starts = 1 /\ sched.startAt = sched.lastBatch + 120)
    /\ sched.now > sched.lastBatch + 120 => sched.starts = 1

\* C19 (amended): every call of scheduleApply cancels the pending timer
\* and arms one with the caller's delay, so at most one timer is pending;
\* a burst of mutation batches, each arriving less than 120 time-units
\* after the one before, starts exactly one pass, 120 time-units after the
\* last batch of the burst, provided no other caller of scheduleApply (a
\* storage change, load, visibilitychange) comes between the first batch
\* and that time.
C19_Debounce ==
    /\ CallArms
    /\ (sched.lastBatch >= 0 /\ ~sched.other) => BurstServed

\* A burst of two batches or more, with no other caller in its time, has
\* started its one pass 120 time-units after its last batch.
C19_Witness ==
    /\ last.act = "TimedTimerFires"
    /\ sched.batches = 2
    /\ ~sched.other
    /\ sched.starts = 1
    /\ sched.startAt = sched.lastBatch + 120
    /\ sched.now = sched.startAt

\* C19 (as the specification states it): a burst of mutation batches, each
\* arriving less than 120 time-units after the one before, starts exactly
\* one pass, 120 time-units after the last batch of the burst.
C19_BurstAlone ==
    /\ CallArms
    /\ sched.lastBatch >= 0 => BurstServed

\* Some turn element of the document, located or not, carries the hidden
\* class or the hidden attribute.
HiddenAnywhere(document) == \E k \in 1..Len(document) : document[k].hidden \/ document[k].attr

\* C26 (as the specification states it): when a pass that located zero
\* turns has completed, it has reported hiddenCount = 0 and totalCount = 0,
\* the document holds no banner, and no element carries the hidden marker,
\* elements hidden by an earlier pass that the locator no longer returns
\* included.
C26_EmptyClears ==
    (PassDone /\ Len(Located) = 0) =>
        /\ last.result.hiddenCount = 0
        /\ last.result.totalCount = 0
        /\ banners = <<>>
        /\ ~HiddenAnywhere(doc)

\* C27: when a pass has completed, <html> carries the minimal-UI class iff
\* the settings the pass read have minimalUi = true, whatever the number of
\* turns it located (zero included) and whatever it hid or collapsed.
C27_MinimalUi == PassDone => (minimalUi <=> last.settings.minimalUi)

\* A pass that located no turn on a page that has turns (none of them
\* matches a selector any more) has set the class, the stored minimalUi
\* being true.
C27_Witness ==
    /\ PassDone
    /\ Len(doc) > 0
    /\ Len(Located) = 0
    /\ last.settings.minimalUi
    /\ minimalUi

\* C29 (as the specification states it): when a pass with hiddenCount > 0
\* has completed, the banner is the sibling immediately before the first
\* located turn, also when the pass found the banner an earlier pass
\* created and the host has changed the head of the list since.
C29_BannerFirst ==
    (PassDone /\ last.result.hiddenCount > 0) =>
        /\ Len(banners) >= 1
        /\ banners[1].pos = Located[1] - 1

\* Every toggle of the kind in the turn that immediately precedes a node of
\* its kind agrees with that node and with the map: the node carries the
\* collapsed marker iff the entry of the toggle's key is true iff
\* aria-expanded is "false" iff the label is the "Show" label; otherwise
\* aria-expanded is "true" and the label the "Hide" label.
PairsAgree(turn, btnType, nodeType, map, showLabel, hideLabel) ==
    \A k \in 1..Len(DocOrder(turn)) :
        (/\ DocOrder(turn)[k].t = btnType
         /\ NextSibling(turn, btnType, DocOrder(turn)[k].n).t = nodeType) =>
            /\ NextSibling(turn, btnType, DocOrder(turn)[k].n).c
                  = (MapGet(map, DocOrder(turn)[k].key) = TRUE)
            /\ DocOrder(turn)[k].exp
                  = (IF MapGet(map, DocOrder(turn)[k].key) = TRUE THEN "false" ELSE "true")
            /\ DocOrder(turn)[k].lab
                  = (IF MapGet(map, DocOrder(turn)[k].key) = TRUE THEN showLabel ELSE hideLabel)

MessagePairsAgree(turn, messages) ==
    PairsAgree(turn, "mbtn", "msg", messages, "Show my message", "Hide my message")
CodePairsAgree(turn, codeBlocks) ==
    PairsAgree(turn, "cbtn", "pre", codeBlocks, "Show code", "Hide code")

\* A click in a turn where the pairs of the kind agreed leaves them agreeing.
ClickKeepsMessagePairs ==
    MessagePairsAgree(doc[last'.click.turn], state.messages) =>
        MessagePairsAgree(doc'[last'.click.turn], state'.messages)
ClickKeepsCodePairs ==
    CodePairsAgree(doc[last'.click.turn], state.codeBlocks) =>
        CodePairsAgree(doc'[last'.click.turn], state'.codeBlocks)

\* C30 (as the specification states it): after a pass with the feature
\* enabled, in every located turn, every toggle and the node it immediately
\* precedes agree with the collapse state (marker, aria-expanded, label);
\* and a click on a toggle, or an escape-hatch expansion, in a turn where
\* they agreed leaves them agreeing.
C30_PairsAgree ==
    /\ [](PassDone =>
             \A i \in 0..(Len(Located) - 1) :
                 /\ last.settings.collapseOwnMessages =>
                       MessagePairsAgree(LocatedTurn(i), state.messages)
                 /\ last.settings.collapseCodeBlocks =>
                       CodePairsAgree(LocatedTurn(i), state.codeBlocks))
    /\ [][/\ last'.act \in {"ClickMessageToggle", "ClickInside", "ClickCodeToggle"} =>
                 ClickKeepsMessagePairs
          /\ last'.act = "ClickCodeToggle" => ClickKeepsCodePairs]_vars

\* If in the turn `before` the sibling immediately before the node n is the
\* toggle of `key`, then in the turn `after` the same toggle is still the
\* sibling immediately before the node, with the same text child.
StaysPut(before, after, type, n, btnType, key) ==
    (/\ PreviousSibling(before, type, n).t = btnType
     /\ PreviousSibling(before, type, n).key = key) =>
        /\ PreviousSibling(after, type, n).t = btnType
        /\ PreviousSibling(after, type, n).n = PreviousSibling(before, type, n).n
        /\ PreviousSibling(after, type, n).lab = PreviousSibling(before, type, n).lab

\* The turn a pass located at position i (0-based) as the pass found it,
\* and as it left it.
FoundTurn(i) == doc[getConversationTurns(doc)[i + 1]]
LeftTurn(i) == doc'[getConversationTurns(doc)[i + 1]]

\* C25 (as the specification states it): when at the start of a pass with
\* the feature enabled the toggle of the key derived for a node is already
\* the sibling immediately before that node, the pass neither inserts,
\* moves or removes that toggle nor changes its text child: afterwards the
\* same toggle is still the sibling immediately before the node and has the
\* text it had.
C25_NoChurn ==
    [][last'.act \in {"TimerPassDone", "ApplyPassDone"} =>
          \A i \in 0..(Len(getConversationTurns(doc)) - 1) :
              /\ (last'.settings.collapseOwnMessages /\ findUserMessageNode(FoundTurn(i)) # 0) =>
                    StaysPut(FoundTurn(i), LeftTurn(i), "msg", findUserMessageNode(FoundTurn(i)),
                             "mbtn", MessageKey(getTurnKey(FoundTurn(i), i)))
              /\ last'.settings.collapseCodeBlocks =>
                    \A j \in 0..(Len(PreBlocks(DocOrder(FoundTurn(i)))) - 1) :
                        StaysPut(FoundTurn(i), LeftTurn(i), "pre",
                                 PreBlocks(DocOrder(FoundTurn(i)))[j + 1], "cbtn",
                                 CodeKey(getTurnKey(FoundTurn(i), i), j))]_vars

\* The payloads of the model that a well-behaved popup never sends.
Malformed(message) ==
    \/ message.keepLastN.t # "num"
    \/ message.keepLastN.n \notin 1..500
    \/ \E k \in {"minimalUi", "collapseOwnMessages", "collapseCodeBlocks"} :
          message[k].t # "bool"

\* C23: whatever the payload of a TRIMMER_APPLY command (its keepLastN
\* missing, no number or out of range, its flags missing or no booleans),
\* the handler accepts it; its write persists a keepLastN that is an integer
\* in [1, 500], 6 when the payload's keepLastN does not parse as an integer,
\* and four boolean flags; the pass it starts, once it has read the store,
\* is answered with ok: true.
C23_Normalized ==
    /\ last.act = "ApplyReceived" =>
          \E a \in applies : a.msg = last.msg /\ a.stage = "saving"
    /\ last.act = "ApplySaved" =>
          /\ store.keepLastN.t = "num"
          /\ store.keepLastN.n \in 1..500
          /\ ParseInt(ToJsString(last.msg.keepLastN)).t # "num" => store.keepLastN.n = 6
          /\ \A k \in {"minimalUi", "collapseOwnMessages", "collapseCodeBlocks"} :
                store[k] \in {Bool(TRUE), Bool(FALSE)}
    /\ last.act = "ApplyPassDone" =>
          /\ last.replies = 1
          /\ last.reply.ok = TRUE
          /\ "error" \notin last.reply.fields

\* The command whose payload has no keepLastN, no minimalUi and a number
\* for collapseCodeBlocks was answered after its write: 6 is persisted and
\* reported, the flags are stored as booleans.
C23_Witness ==
    /\ last.act = "ApplyPassDone"
    /\ last.wrote
    /\ last.clean
    /\ Malformed(last.msg)
    /\ last.msg.keepLastN = Undefined
    /\ store.keepLastN = Num(6)
    /\ store.minimalUi = Bool(FALSE)
    /\ store.collapseCodeBlocks = Bool(FALSE)
    /\ last.reply.ok = TRUE
    /\ last.reply.keepLastN = 6

\* The indices of the articles a selector matches.
Matches(document, sel) == {k \in 1..Len(document) : document[k].sel = sel}

\* What the specification has the Turn Locator return, as a set of indices.
ToLocate(document) ==
    LET candidates == IF Matches(document, "primary") # {}
                      THEN Matches(document, "primary")
                      ELSE Matches(document, "fallback")
    IN  IF \E k \in 1..Len(document) : document[k].thread
        THEN {k \in candidates : document[k].thread}
        ELSE candidates

\* C28: the Turn Locator returns, in document order and each once, the
\* matches of the primary rule, or those of the fallback rule when the
\* primary rule matches nothing in the whole document, restricted to the
\* articles inside the thread root when the page has one; when nothing is
\* left it returns the empty sequence.
C28_Locator ==
    (fin.kind = "doc" /\ fout.done) =>
        /\ \A i \in 1..Len(fout.turns), j \in 1..Len(fout.turns) :
              i < j => fout.turns[i] < fout.turns[j]
        /\ {fout.turns[i] : i \in 1..Len(fout.turns)} = ToLocate(doc)
        /\ ToLocate(doc) = {} => fout.turns = <<>>

\* Three articles, the first matching the primary rule outside the thread,
\* the others matching the fallback rule inside it: the locator returned
\* the empty sequence.
C28_Witness ==
    /\ fin.kind = "doc"
    /\ fout.done
    /\ Len(doc) = MaxArticles
    /\ fout.turns = <<>>
    /\ doc[1].sel = "primary" /\ ~doc[1].thread
    /\ \A k \in 2..Len(doc) : doc[k].sel = "fallback" /\ doc[k].thread

\* C24 (as the specification states it): in one pass no two located
\* user-message nodes derive the same message key and no two code blocks
\* the same code key; the key of a turn with a host identity attribute is
\* made of that attribute and does not depend on the turn's position.
C24_KeysUnique ==
    (fin.kind = "doc" /\ fout.done) =>
        /\ \A i \in 1..Len(fout.turns), j \in 1..Len(fout.turns) :
              i # j => /\ MessageKey(fout.keys[i]) # MessageKey(fout.keys[j])
                       /\ CodeKey(fout.keys[i], 0) # CodeKey(fout.keys[j], 0)
        /\ \A i \in 1..Len(fout.turns) :
              doc[fout.turns[i]].id # 0 =>
                  /\ fout.keys[i].src \in {"testid", "turn-id"}
                  /\ fout.keys[i].v = doc[fout.turns[i]].id

\* The click handler has ended without the message reaching the content
\* script: no active tab, or sendMessage failed.
PopupCouldNotReach ==
    /\ popup.pc = "failed"
    /\ ~popup.sent
    /\ popup.status.text \in {"No active tab found.", NotReachable}

\* C22 (as the specification states it): when Apply or Reset cannot reach
\* the engine, the popup shows the error (for an unreachable content
\* script the text "Content script is not reachable. Open a ChatGPT tab
\* and reload the page."), the operation is aborted and the persisted
\* settings are those persisted before the click (what loadSettings reads
\* from the store is what it read before).
C22_NothingChanged ==
    /\ popup.pc = "failed" /\ ~popup.sent => PopupCouldNotReach /\ popup.status.isError
    /\ PopupCouldNotReach => loadSettings(store) = loadSettings(popup.before)

\* No timer is pending, no pass is in flight and every storage event has
\* been delivered.
OrderAtRest == applyTimer = NoTimer /\ order.passes = <<>> /\ order.changed = 0

\* C21: a pass applies the settings the store held when its read was
\* served, which is not before it started and so not before it was
\* scheduled, whatever the store held when it was scheduled; and once the
\* most recently scheduled pass has completed and nothing is pending, the
\* settings it applied to the document are the most recently persisted
\* ones.
C21_ReadAtStart ==
    /\ order.done.served =>
          /\ order.done.armed <= order.done.started
          /\ order.done.started <= order.done.read
          /\ order.done.settings = loadSettings(order.history[order.done.read + 1])
          /\ last.settings = order.done.settings
    /\ (OrderAtRest /\ order.done.served) =>
          /\ order.done.read = Version
          /\ last.settings = loadSettings(store)
          /\ minimalUi = loadSettings(store).minimalUi
          /\ \A i \in 1..Len(Located) :
                doc[Located[i]].hidden
                    <=> i <= Cut(Len(Located), loadSettings(store).keepLastN)

\* A pass that was scheduled before a write and started after it has
\* completed: it applied the written settings, which differ from those
\* persisted when it was scheduled.
C21_Witness ==
    /\ order.done.served
    /\ order.done.armed < order.done.started
    /\ order.done.started = order.done.read
    /\ last.settings = loadSettings(order.history[order.done.started + 1])
    /\ last.settings # loadSettings(order.history[order.done.armed + 1])
    /\ minimalUi = last.settings.minimalUi
    /\ order.passes = <<>>

\* The pass of a TRIMMER_APPLY command has completed, after the store took
\* the command's write and no other writer came before the pass's read.
OwnPassDone == last.act = "ApplyPassDone" /\ last.wrote /\ last.clean

ToggleBefore ==
    ItemAt(doc[last'.click.turn], LocOfNode(doc[last'.click.turn], "mbtn", last'.click.b))
NodeBefore == NextSibling(doc[last'.click.turn], "mbtn", last'.click.b)

\* The toggle precedes a user-message node that carries the collapsed
\* marker iff `collapsed`, and the state of the toggle's key says the same.
ToggleOfMessage(collapsed) ==
    /\ NodeBefore.t = "msg"
    /\ NodeBefore.c = collapsed
    /\ MapGet(state.messages, last'.click.key) = collapsed

CodeToggleAttached(i, k) ==
    \E j \in 0..(Len(BlocksOf(i)) - 1) :
        /\ NextSibling(LocatedTurn(i), "cbtn", DocOrder(LocatedTurn(i))[k].n).t = "pre"
        /\ NextSibling(LocatedTurn(i), "cbtn", DocOrder(LocatedTurn(i))[k].n).n = BlocksOf(i)[j + 1]
        /\ DocOrder(LocatedTurn(i))[k].key = BlockKey(i, j)

\* The toggle at position k of the located turn i is the sibling
\* immediately before the user-message node of the turn, tagged with the
\* message's key.
MessageToggleAttached(i, k) ==
    /\ NextSibling(LocatedTurn(i), "mbtn", DocOrder(LocatedTurn(i))[k].n).t = "msg"
    /\ NextSibling(LocatedTurn(i), "mbtn", DocOrder(LocatedTurn(i))[k].n).n
          = findUserMessageNode(LocatedTurn(i))
    /\ DocOrder(LocatedTurn(i))[k].key = OwnKey(i)

\* C34 (as the specification states it): when a pass that located at least
\* one turn has completed with a collapse feature enabled, every toggle of
\* that kind in a located turn is the sibling immediately before a live
\* message node or code block whose identity key equals the toggle's tag.
C34_NoOrphanToggles ==
    (PassDone /\ last.result.totalCount >= 1) =>
        \A i \in 0..(Len(Located) - 1) : \A k \in 1..Len(DocOrder(LocatedTurn(i))) :
            /\ (/\ last.settings.collapseOwnMessages
                /\ DocOrder(LocatedTurn(i))[k].t = "mbtn") => MessageToggleAttached(i, k)
            /\ (/\ last.settings.collapseCodeBlocks
                /\ DocOrder(LocatedTurn(i))[k].t = "cbtn") => CodeToggleAttached(i, k)

\* The step called scheduleApply(delayMs): the timer pending after it was
\* armed at the time of the step with that delay.
Scheduled(delayMs) == applyTimer' = delayMs /\ sched'.armedAt = sched'.now
\* The step left the timer as it was.
NothingScheduled == applyTimer' = applyTimer /\ sched'.armedAt = sched.armedAt

\* C31: init arms the timer with delay 0; the load event arms it with delay
\* 50 and is served at most once; visibilitychange arms it with delay 80
\* when the document is visible and changes nothing when it is hidden; a
\* store change arms it with delay 50 when the area is sync and one of
\* keepLastN, minimalUi, collapseOwnMessages, collapseCodeBlocks changed and
\* changes nothing otherwise; a timer is armed by no step other than these
\* and a mutation batch.
C31_Callers ==
    /\ [](sched.ev.kind = "init" => (applyTimer = 0 /\ sched.armedAt = 0 /\ sched.now = 0))
    /\ [][/\ sched'.ev.kind = "load" => (Scheduled(50) /\ ~sched.loaded /\ sched'.loaded)
          /\ sched'.ev.kind = "visibilitychange" =>
                IF sched'.ev.visibilityState = "visible"
                THEN Scheduled(80) ELSE NothingScheduled
          /\ sched'.ev.kind = "storage" =>
                IF /\ sched'.ev.areaName = "sync"
                   /\ \E key \in sched'.ev.changes :
                         key \in {"keepLastN", "minimalUi", "collapseOwnMessages",
                                  "collapseCodeBlocks"}
                THEN Scheduled(50) ELSE NothingScheduled
          /\ sched'.ev.kind = "mutations" => Scheduled(120)
          /\ sched'.ev.kind = "tick" => NothingScheduled
          /\ sched'.ev.kind = "timer" => applyTimer' = NoTimer
          /\ sched'.ev.kind
                \in {"load", "visibilitychange", "storage", "mutations", "tick", "timer"}]_vars

\* A change of minimalUi and of a key that is no setting, in the sync area,
\* after the load event and later than 100 time-units after init, has armed
\* the timer with delay 50.
C31_Witness ==
    /\ sched.ev.kind = "storage"
    /\ sched.ev.areaName = "sync"
    /\ sched.ev.changes = {"theme", "minimalUi"}
    /\ sched.loaded
    /\ applyTimer = 50
    /\ sched.armedAt = sched.now
    /\ sched.now > 100

\* C32 (as the specification states it): the host mutations, commands,
\* clicks and settings writes of a run being finitely many, the engine
\* eventually reaches, and stays in, a state with no pending timer and no
\* pass in flight.
C32_Quiescence == <>[]AtRest

\* The document has the hidden markers and the banner the partition rule
\* gives for the located turns and the keepLastN the store holds.
PartitionOf(keepLastN) ==
    /\ \A i \in 1..Len(Located) :
          /\ doc[Located[i]].hidden <=> i <= Cut(Len(Located), keepLastN)
          /\ doc[Located[i]].attr = doc[Located[i]].hidden
    /\ Len(banners) = (IF Cut(Len(Located), keepLastN) > 0 THEN 1 ELSE 0)
    /\ Len(banners) = 1 =>
          banners[1].text = BannerText(Cut(Len(Located), keepLastN), Len(Located), keepLastN)

Consistent == PartitionOf(loadSettings(store).keepLastN)

\* The host has re-rendered a turn without the attributes the locator
\* looks for.
Retagged == \E i \in 1..Len(doc) : doc[i].sel = "none"

MaxPairEvents == 4  \* external events (host mutations, commands) in one run of PairSpec

\* DEFAULT_SETTINGS of the first variant
DEFAULT_SETTINGS_First == [keepLastN |-> Num(DefaultKeepLastN), minimalUi |-> Bool(TRUE)]

FirstKeys == DOMAIN DEFAULT_SETTINGS_First

\* loadSettings of the first variant
loadSettingsFirst(stored) ==
    LET result == StorageGet(stored, DEFAULT_SETTINGS_First)
    IN  [keepLastN |-> clampKeepLastN(result.keepLastN),
         minimalUi |-> ToBoolean(result.minimalUi)]

\* applyTrimming of the first variant that leaves the banner as it is when
\* it locates no turn.
ReconcileFirstKeepingBanner(settings, document, bans, turns, hiddenCount) ==
    IF Len(turns) = 0
    THEN [doc |-> document, banners |-> bans, minimalUi |-> settings.minimalUi,
          result |-> ApplyResult(0, 0, settings.keepLastN)]
    ELSE [doc |-> HideLoop(document, turns, 0, hiddenCount),
          banners |-> updateBanner(hiddenCount, Len(turns), settings.keepLastN, turns, bans),
          minimalUi |-> settings.minimalUi,
          result |-> ApplyResult(hiddenCount, Len(turns), settings.keepLastN)]

\* applyTrimming of the first variant with the located turns and the hidden
\* count computed.
ReconcileFirst(settings, document, bans, turns, hiddenCount) ==
    IF Len(turns) = 0
    THEN [doc |-> document, banners |-> removeBanner(bans),
          minimalUi |-> settings.minimalUi,
          result |-> ApplyResult(0, 0, settings.keepLastN)]
    ELSE [doc |-> HideLoop(document, turns, 0, hiddenCount),
          banners |-> updateBanner(hiddenCount, Len(turns), settings.keepLastN, turns, bans),
          minimalUi |-> settings.minimalUi,
          result |-> ApplyResult(hiddenCount, Len(turns), settings.keepLastN)]

LocatedAndCountedFirst(settings, document, bans, turns) ==
    ReconcileFirst(settings, document, bans, turns,
                   HiddenCount(Len(turns), settings.keepLastN))

\* applyTrimming of the first variant from the point where loadSettings has
\* resolved with `settings`.
applyTrimmingFirst(settings, document, bans) ==
    LocatedAndCountedFirst(settings, document, bans, getConversationTurns(document))

\* nextSettings of the first variant's TRIMMER_APPLY branch
nextSettingsFirst(message) ==
    [keepLastN |-> Num(clampKeepLastN(message.keepLastN)),
     minimalUi |-> Bool(ToBoolean(message.minimalUi))]

\* The chrome.storage.onChanged listener of the first variant's init, for
\* the sync area.
onStorageChangedFirst(timer, changes) ==
    IF "keepLastN" \in changes \/ "minimalUi" \in changes
    THEN scheduleApply(timer, StorageApplyMs) ELSE timer

\* A task of the first variant that gives sendResponse nothing.
Silent(f) == [f EXCEPT !.reply = NoReply]

\* The document of the first variant changes and its observer's callback
\* follows.
FirstChanged(f, document, bans) ==
    [f EXCEPT !.doc = document, !.banners = bans,
              !.applyTimer = observerCallback(f.applyTimer, ChildListView(f.doc, f.banners),
                                              ChildListView(document, bans))]

\* The timer callback of the first variant's scheduleApply
FirstTimerFires(f) ==
    IF f.applyTimer = NoTimer THEN Silent(f)
    ELSE [Silent(f) EXCEPT !.applyTimer = NoTimer, !.timerPasses = @ + 1]

\* The rest of the first variant's applyTrimming and the observer callback
\* that follows it.
FirstPassCompletes(f, pass) ==
    [FirstChanged(f, pass.doc, pass.banners) EXCEPT !.minimalUi = pass.minimalUi]

FirstPassRuns(f) ==
    FirstPassCompletes(f, applyTrimmingFirst(loadSettingsFirst(f.store), f.doc, f.banners))

FirstTimerPassLoaded(f) ==
    IF f.timerPasses = 0 THEN Silent(f)
    ELSE [Silent(FirstPassRuns(f)) EXCEPT !.timerPasses = @ - 1]

\* onMessage of the first variant, TRIMMER_APPLY: saveSettings is issued.
FirstApplyReceived(f, cid, message) ==
    [Silent(f) EXCEPT !.applies = @ \cup {[cid |-> cid, stage |-> "saving", msg |-> message]}]

\* The write of the first variant's saveSettings has called back.
FirstStored(f, stored) ==
    [Silent(f) EXCEPT !.store = stored,
                      !.applyTimer = onStorageChangedFirst(@, ChangedKeys(f.store, stored))]

FirstApplySaved(f, a) ==
    [FirstStored(f, StorageSet(f.store, nextSettingsFirst(a.msg))) EXCEPT
        !.applies = (@ \ {a}) \cup {[a EXCEPT !.stage = "loading"]}]

\* The pass of the first variant's TRIMMER_APPLY completes and
\* sendResponse is given the result.
FirstApplyPassDone(f, a, pass) ==
    [FirstPassCompletes(f, pass) EXCEPT !.applies = @ \ {a}, !.reply = pass.result]

FirstApplyLoaded(f, a) ==
    FirstApplyPassDone(f, a, applyTrimmingFirst(loadSettingsFirst(f.store), f.doc, f.banners))

\* onMessage of the first variant, TRIMMER_SHOW_ALL
FirstShownAll(f, shown) ==
    [FirstChanged(f, shown.doc, shown.banners) EXCEPT !.reply = ShowAllReply]

FirstShowAll(f) == FirstShownAll(f, showAllTurns(f.doc, f.banners))

\* onMessage of the first variant, TRIMMER_STATUS
FirstStatusAnswered(f, counts) ==
    [f EXCEPT !.reply = StatusReply(counts.totalCount, counts.hiddenCount)]

FirstStatus(f) == FirstStatusAnswered(f, StatusCounts(f.doc))

\* The stores of the second variant that hold both collapse features
\* disabled, and the payloads of TRIMMER_APPLY that leave them disabled.
PairStores ==
    {StoredSettings(2, FALSE, FALSE, FALSE), StoredSettings(1, TRUE, FALSE, FALSE),
     [collapseOwnMessages |-> Bool(FALSE), collapseCodeBlocks |-> Bool(FALSE)]}

PairMessages ==
    {m \in ApplyMessages :
        ~ToBoolean(m.collapseOwnMessages) /\ ~ToBoolean(m.collapseCodeBlocks)}

\* The first variant's store holds the keys of its own schema.
Restricted(stored, keys) == [k \in DOMAIN stored \cap keys |-> stored[k]]

PairInit ==
    /\ \E len \in 0..MaxTurns, sel \in {"primary", "fallback"} :
          /\ sel = "fallback" => len = 2
          /\ doc = InitialDoc(len, sel)
          /\ nextId = len + 1
    /\ banners = <<>>
    /\ minimalUi = FALSE
    /\ state = [messages |-> <<>>, codeBlocks |-> <<>>]
    /\ store \in PairStores
    /\ applyTimer = InitialApplyMs       \* init: scheduleApply(TIMING.initialApplyMs)
    /\ timerPasses = 0
    /\ applies = {}
    /\ first = [NoFirst EXCEPT !.doc = doc, !.store = Restricted(store, FirstKeys),
                               !.applyTimer = InitialApplyMs]   \* init: scheduleApply(0)
    /\ last = Did("init")
    /\ events = 0
    /\ sinceShowAll = "none"
    /\ fin = NoInput
    /\ fout = NoOutput
    /\ sched = SchedIdle
    /\ popup = NoPopup
    /\ order = NoOrder

pairRest == <<sinceShowAll, fin, fout, sched, popup, order>>

PairExternal ==
    /\ events < MaxPairEvents
    /\ events' = events + 1

\* The timers that are due fire.
PairTimerFires ==
    /\ applyTimer # NoTimer \/ first.applyTimer # NoTimer
    /\ InFlight < MaxInFlight
    /\ applyTimer' = NoTimer
    /\ timerPasses' = IF applyTimer = NoTimer THEN timerPasses ELSE timerPasses + 1
    /\ first' = FirstTimerFires(first)
    /\ last' = Did("TimerFires")
    /\ UNCHANGED <<domVars, store, applies, events, nextId, pairRest>>

\* The storage reads of the timer passes call back.
PairTimerPassLoaded ==
    /\ timerPasses > 0 \/ first.timerPasses > 0
    /\ IF timerPasses > 0
       THEN /\ TimerPassRuns(loadSettings(store))
            /\ timerPasses' = timerPasses - 1
       ELSE /\ last' = Did("NoPass")
            /\ UNCHANGED <<domVars, applyTimer, timerPasses>>
    /\ first' = FirstTimerPassLoaded(first)
    /\ UNCHANGED <<store, applies, events, nextId, pairRest>>

\* The command of the first variant that came with the command cid of the
\* second.
FirstCommand(f, cid) == CHOOSE b \in f.applies : b.cid = cid

\* TRIMMER_APPLY is sent to both.
PairApplyReceived(message) ==
    /\ PairExternal
    /\ InFlight < MaxInFlight
    /\ applies' = applies \cup
          {[cid |-> FreshCid, stage |-> "saving", msg |-> message, wrote |-> FALSE,
            clean |-> FALSE]}
    /\ first' = FirstApplyReceived(first, FreshCid, message)
    /\ last' = [Did("ApplyReceived") EXCEPT !.msg = message]
    /\ UNCHANGED <<domVars, store, applyTimer, timerPasses, nextId, pairRest>>

\* The writes of the command call back.
PairApplySaved(a) ==
    /\ a \in applies
    /\ a.stage = "saving"
    /\ store' = StorageSet(store, nextSettings(a.msg))
    /\ applyTimer' = onStorageChanged(applyTimer, ChangedKeys(store, store'))
    /\ applies' = Disturbed(applies \ {a}) \cup
          {[a EXCEPT !.stage = "loading", !.wrote = TRUE, !.clean = TRUE]}
    /\ first' = FirstApplySaved(first, FirstCommand(first, a.cid))
    /\ last' = [Did("ApplySaved") EXCEPT !.msg = a.msg]
    /\ UNCHANGED <<domVars, timerPasses, events, nextId, pairRest>>

\* The reads of the command's passes call back and the replies are given.
PairApplyLoaded(a) ==
    /\ a \in applies
    /\ a.stage = "loading"
    /\ ApplyPassRuns(a, loadSettings(store))
    /\ applies' = applies \ {a}
    /\ first' = FirstApplyLoaded(first, FirstCommand(first, a.cid))
    /\ UNCHANGED <<store, timerPasses, events, nextId, pairRest>>

\* TRIMMER_SHOW_ALL is sent to both.
PairShowAll ==
    /\ PairExternal
    /\ ShownAll(showAllTurns(doc, banners))
    /\ first' = FirstShowAll(first)
    /\ last' = [Did("ShowAll") EXCEPT !.reply = ShowAllReply, !.replies = 1]
    /\ UNCHANGED <<minimalUi, state, store, timerPasses, applies, nextId, pairRest>>

\* TRIMMER_STATUS is sent to both.
PairStatus ==
    /\ PairExternal
    /\ StatusAnswered(StatusCounts(doc))
    /\ first' = FirstStatus(first)
    /\ UNCHANGED <<domVars, store, applyTimer, timerPasses, applies, nextId, pairRest>>

\* The host has changed both pages the same way.
PairHostChanged(document, bans, firstDocument, firstBans) ==
    /\ PairExternal
    /\ doc' = document
    /\ banners' = bans
    /\ applyTimer' = observerCallback(applyTimer, ChildListView(doc, banners),
                                      ChildListView(document, bans))
    /\ first' = Silent(FirstChanged(first, firstDocument, firstBans))
    /\ last' = Did("Host")
    /\ UNCHANGED <<minimalUi, state, store, timerPasses, applies, pairRest>>

\* The host appends a turn.
PairHostAppendTurn(kind) ==
    /\ Len(doc) < MaxTurns
    /\ nextId' = nextId + 1
    /\ PairHostChanged(
          Append(doc, IF kind = "user" THEN UserTurn(nextId, "primary")
                      ELSE CodeTurn(nextId, "primary")),
          banners,
          Append(first.doc, IF kind = "user" THEN UserTurn(nextId, "primary")
                            ELSE CodeTurn(nextId, "primary")),
          first.banners)

\* The banners after the turn at index i has gone.
BannersWithout(bans, i) ==
    [k \in 1..Len(bans) |->
        IF bans[k].pos >= i THEN [bans[k] EXCEPT !.pos = @ - 1] ELSE bans[k]]

\* The host removes the first or the last turn.
PairHostRemoveTurn(i) ==
    /\ i \in {1, Len(doc)} \ {0}
    /\ nextId' = nextId
    /\ PairHostChanged(RemoveAt(doc, i), BannersWithout(banners, i),
                       RemoveAt(first.doc, i), BannersWithout(first.banners, i))

\* The host re-renders turn i without the attributes the two selectors look
\* for.
PairHostRetagTurn(i) ==
    /\ i \in 1..Len(doc)
    /\ doc[i].sel # "none"
    /\ nextId' = nextId
    /\ PairHostChanged([doc EXCEPT ![i].sel = "none"], banners,
                       [first.doc EXCEPT ![i].sel = "none"], first.banners)

PairNext ==
    \/ PairTimerFires
    \/ PairTimerPassLoaded
    \/ \E message \in PairMessages : PairApplyReceived(message)
    \/ \E a \in applies : PairApplySaved(a)
    \/ \E a \in applies : PairApplyLoaded(a)
    \/ PairShowAll
    \/ PairStatus
    \/ \E kind \in {"user", "code"} : PairHostAppendTurn(kind)
    \/ \E i \in 1..Len(doc) : PairHostRemoveTurn(i)
    \/ \E i \in 1..Len(doc) : PairHostRetagTurn(i)

PairSpec == PairInit /\ [][PairNext]_vars

\* The hidden markers of the turn elements: the class and the attribute.
HiddenMarkers(document) ==
    [k \in 1..Len(document) |-> <<document[k].id, document[k].hidden, document[k].attr>>]

\* The second variant runs with both collapse features disabled.
CollapseDisabled ==
    /\ ~loadSettings(store).collapseOwnMessages
    /\ ~loadSettings(store).collapseCodeBlocks

\* C37: With both collapse features disabled, the second variant has the
\* same hidden markers on the turns, the same banners with the same text,
\* the same minimal-UI marker and has given the same reply to the last
\* command as the first variant, after every sequence of host mutations,
\* timer firings and Apply / Show-all / Status commands given to both.
C37_VariantsAgree ==
    CollapseDisabled =>
        /\ HiddenMarkers(doc) = HiddenMarkers(first.doc)
        /\ banners = first.banners
        /\ minimalUi = first.minimalUi
        /\ last.reply = first.reply

\* C37 witness: both variants have answered a TRIMMER_APPLY after hiding a
\* turn and showing the banner, the second with both features disabled.
C37_Witness ==
    /\ CollapseDisabled
    /\ last.act = "ApplyPassDone"
    /\ last.reply.hiddenCount > 0
    /\ first.reply.hiddenCount > 0
    /\ Len(banners) = 1
    /\ Len(first.banners) = 1
    /\ \E k \in 1..Len(first.doc) : first.doc[k].hidden /\ doc[k].hidden

=============================================================================
